---- MODULE Spec2Model ----
(***************************************************************************)
(* Marker-stream decoding of the AqMD3 streaming examples (LibTool.h):     *)
(* ArraySegment, the marker value types and ZeroSuppress::                 *)
(* MarkerStreamDecoder, driven by the fetch/decode/take loop of the        *)
(* example programs.                                                       *)
(*                                                                         *)
(* A 32-bit element is modelled by the int32_t value of its bit pattern.   *)
(* With \div rounding down and % never negative, x \div 2^k is the         *)
(* arithmetic shift and (x \div 2^k) % 2^n are bits k .. k+n-1 of the      *)
(* pattern, so the code's (uint32_t(x) >> k) & mask is (x \div 2^k) % 2^n  *)
(* for a negative x as well. The elements of the decoder sessions have bit *)
(* 31 clear; trigger markers are also decoded from elements that have it   *)
(* set. The 64-bit absoluteSampleIndex is kept as                          *)
(* three parts [top, hi, lo], standing for top * 2^40 + hi * 2^24 + lo     *)
(* (timestampHigh | timestampLow, whose bits are disjoint): lo is          *)
(* timestampLow, hi and top are bits 0..15 and 16..31 of the high word.    *)
(***************************************************************************)
EXTENDS Integers, Sequences, FiniteSets, TLC

\* ------------------------------------------------------------------ bounds
\* Number of markers the firmware emits in one session (over all fetches).
MaxChunks == 3
\* The same, in a session of well-formed ZeroSuppress markers (SpecWF).
MaxWellFormed == 4
\* Largest count handed to Take.
MaxTake == 2

\* --------------------------------------------------------------- constants
\* enum class MarkerTag
TagNone == 0
TriggerNormal == 1
TriggerAverager == 2
GateStartCst == 4
GateStopCst == 5
DummyGate == 8
RecordStop == 10
\* StandardStreaming::NbrTriggerMarkerElements, the PopFront(16) of a trigger
NbrTriggerMarkerElements == 16
\* elements of a 64-bit marker, the PopFront(2) of gate/stop/dummy markers
NbrGateMarkerElements == 2

Pow2_8 == 256
Pow2_24 == 16777216
Pow2_16 == Pow2_8 * Pow2_8

\* ------------------------------------------------------------ ArraySegment
\* An ArraySegment<int32_t>: m_data (the backing vector), m_offset, m_size.
ArraySegment(data, offset, count) ==
    [m_data |-> data, m_offset |-> offset, m_size |-> count]

Size(s) == s.m_size

\* operator[]: m_data[m_offset + index], with no check against m_size. An
\* index past the end of the vector is undefined behaviour: the value read
\* is g, chosen by the caller of the model among the values a build can see.
At(s, index, g) ==
    IF s.m_offset + index < Len(s.m_data)
    THEN s.m_data[s.m_offset + index + 1]
    ELSE g

\* (variant: popping the whole segment is refused as well)
PopFrontNotAll(s, nbrElements) ==
    IF Size(s) <= nbrElements
    THEN [err |-> "PopFront", stream |-> s]
    ELSE [err |-> "",
          stream |-> [s EXCEPT !.m_offset = @ + nbrElements,
                               !.m_size = @ - nbrElements]]

\* PopFront: throws std::invalid_argument when Size() < nbrElements and
\* leaves the segment as it is; else m_offset += n, m_size -= n.
PopFront(s, nbrElements) ==
    IF Size(s) < nbrElements
    THEN [err |-> "PopFront", stream |-> s]
    ELSE [err |-> "",
          stream |-> [s EXCEPT !.m_offset = @ + nbrElements,
                               !.m_size = @ - nbrElements]]

\* ------------------------------------------------------------ marker types
ExtractTag(header) == header % Pow2_8

IsTriggerMarkerTag(tag) == (tag = TriggerNormal) \/ (tag = TriggerAverager)

\* TriggerMarker default member initialisers. triggerTimeSamples is kept in
\* units of 1/256 sample (the code divides the low byte by 256.0).
DefaultTriggerMarker ==
    [tag |-> TagNone, triggerTimeSamples |-> 0,
     absoluteSampleIndex |-> [top |-> 0, hi |-> 0, lo |-> 0],
     recordIndex |-> 0]

\* StopMarker::StopMarker(): block index 1, gate end index 0, RecordStop.
DefaultStopMarker ==
    [m_blockIndex |-> 1, m_gateEndIndex |-> 0, m_tag |-> RecordStop]

\* RecordDescriptor(): default trigger, empty gate list, default record stop.
DefaultRecordDescriptor ==
    [m_trigger |-> DefaultTriggerMarker, m_gateList |-> << >>,
     m_recordStop |-> DefaultStopMarker]

\* GateMarker::ExtractPosition
ExtractPosition(element0, element1) ==
    LET low == (element0 \div Pow2_24) % Pow2_8
        high == (element1 % Pow2_24) * Pow2_8
    IN  high + low

\* GateStartMarker::GateStartMarker(element0, element1)
GateStartMarker(element0, element1) ==
    LET tag == ExtractTag(element0)
        blockIndex == ExtractPosition(element0, element1)
    IN  IF tag # GateStartCst
        THEN [err |-> "ExpectedGateStart", val |-> [m_blockIndex |-> 0, m_startSampleIndex |-> 0]]
        ELSE IF blockIndex < 1
        THEN [err |-> "StartBlockIndex", val |-> [m_blockIndex |-> 0, m_startSampleIndex |-> 0]]
        ELSE [err |-> "",
              val |-> [m_blockIndex |-> blockIndex,
                       m_startSampleIndex |-> (element1 \div Pow2_24) % Pow2_8]]

\* StopMarker::StopMarker(element0, element1)
StopMarker(element0, element1) ==
    LET tag == ExtractTag(element0)
        blockIndex == ExtractPosition(element0, element1)
    IN  IF tag # GateStopCst /\ tag # RecordStop
        THEN [err |-> "ExpectedStop", val |-> [m_blockIndex |-> 0, m_gateEndIndex |-> 0, m_tag |-> TagNone]]
        ELSE IF blockIndex < 1
        THEN [err |-> "StopBlockIndex", val |-> [m_blockIndex |-> 0, m_gateEndIndex |-> 0, m_tag |-> TagNone]]
        ELSE [err |-> "",
              val |-> [m_blockIndex |-> blockIndex,
                       m_gateEndIndex |-> (element1 \div Pow2_24) % Pow2_8,
                       m_tag |-> tag]]

IsRecordStop(stop) == stop.m_tag = RecordStop

\* (variant: the order of the block indices is not checked)
GateMarkerAnyOrder(startMarker, stopMarker) ==
    [err |-> "",
     val |-> [m_startMarker |-> startMarker, m_stopMarker |-> stopMarker]]

\* GateMarker::GateMarker(start, stop): throws when the stop block index is
\* smaller than the start block index.
GateMarker(startMarker, stopMarker) ==
    [err |-> IF stopMarker.m_blockIndex < startMarker.m_blockIndex
             THEN "GateOrder" ELSE "",
     val |-> [m_startMarker |-> startMarker, m_stopMarker |-> stopMarker]]

\* --------------------------------------------------- MarkerStreamDecoder
\* A decoder object: [m_recordQueue, m_currentRecord, m_mode, m_state].
\* A decoding function returns [err, stream, val]: err is "" on a normal
\* return and names the exception thrown otherwise; stream is the segment as
\* the call leaves it (it is passed by reference, so what was popped before a
\* throw stays popped).

\* (variant: the timestamp byte of the low word is not shifted out)
TimestampLowUnshifted(low) == low % Pow2_24

\* uint64_t timestampLow = (low >> 8) & 0xffffff
TimestampLow(low) == (low \div Pow2_8) % Pow2_24

\* (variant: only 16 bits of the high word are kept)
TimestampHigh16(high) == [top |-> 0, hi |-> high % Pow2_16]

\* uint64_t timestampHigh = uint64_t(high) << 24, high a uint32_t: the 32
\* bits of the high word, as [top, hi]
TimestampHigh(high) ==
    [top |-> (high \div Pow2_16) % Pow2_16, hi |-> high % Pow2_16]

\* timestampHigh | timestampLow
TimestampOr(timestampHigh, timestampLow) ==
    [top |-> timestampHigh.top, hi |-> timestampHigh.hi, lo |-> timestampLow]

\* (variant: the tag is not checked)
DecodeTriggerMarkerAnyTag(stream, g) ==
    LET header == At(stream, 0, g)
        low == At(stream, 1, g)
        high == At(stream, 2, g)
        result == [tag |-> ExtractTag(header),
                   triggerTimeSamples |-> -(low % Pow2_8),
                   absoluteSampleIndex |->
                       TimestampOr(TimestampHigh(high), TimestampLow(low)),
                   recordIndex |-> (header \div Pow2_8) % Pow2_24]
        popped == PopFront(stream, NbrTriggerMarkerElements)
    IN  IF popped.err # ""
        THEN [err |-> popped.err, stream |-> stream, val |-> DefaultTriggerMarker]
        ELSE [err |-> "", stream |-> popped.stream, val |-> result]

\* MarkerStreamDecoder::DecodeTriggerMarker
DecodeTriggerMarker(stream, g) ==
    LET header == At(stream, 0, g)
        tag == ExtractTag(header)
        low == At(stream, 1, g)
        high == At(stream, 2, g)
        timestampLow == TimestampLow(low)
        timestampHigh == TimestampHigh(high)
        result == [tag |-> tag,
                   triggerTimeSamples |-> -(low % Pow2_8),
                   absoluteSampleIndex |-> TimestampOr(timestampHigh, timestampLow),
                   recordIndex |-> (header \div Pow2_8) % Pow2_24]
        popped == PopFront(stream, NbrTriggerMarkerElements)
    IN  IF ~IsTriggerMarkerTag(tag)
        THEN [err |-> "ExpectedTrigger", stream |-> stream, val |-> DefaultTriggerMarker]
        ELSE IF popped.err # ""
        THEN [err |-> popped.err, stream |-> stream, val |-> DefaultTriggerMarker]
        ELSE [err |-> "", stream |-> popped.stream, val |-> result]

\* MarkerStreamDecoder::DecodeGateStartMarker
DecodeGateStartMarker(stream, g) ==
    LET result == GateStartMarker(At(stream, 0, g), At(stream, 1, g))
        popped == PopFront(stream, NbrGateMarkerElements)
    IN  IF result.err # ""
        THEN [err |-> result.err, stream |-> stream, val |-> result.val]
        ELSE [err |-> popped.err, stream |-> popped.stream, val |-> result.val]

\* MarkerStreamDecoder::DecodeStopMarker
DecodeStopMarker(stream, g) ==
    LET result == StopMarker(At(stream, 0, g), At(stream, 1, g))
        popped == PopFront(stream, NbrGateMarkerElements)
    IN  IF result.err # ""
        THEN [err |-> result.err, stream |-> stream, val |-> result.val]
        ELSE [err |-> popped.err, stream |-> popped.stream, val |-> result.val]

\* MarkerStreamDecoder::DecodeGateMarker: the start, then the stop, read from
\* the stream the start decoding left.
DecodeGateMarker(stream, g) ==
    LET start == DecodeGateStartMarker(stream, g)
        stop == DecodeStopMarker(start.stream, g)
        gate == GateMarker(start.val, stop.val)
        none == [m_startMarker |-> start.val, m_stopMarker |-> stop.val]
    IN  IF start.err # ""
        THEN [err |-> start.err, stream |-> start.stream, val |-> none]
        ELSE IF stop.err # ""
        THEN [err |-> stop.err, stream |-> stop.stream, val |-> none]
        ELSE [err |-> gate.err, stream |-> stop.stream, val |-> gate.val]

\* MarkerStreamDecoder::WalkthroughDummyMarker
WalkthroughDummyMarker(stream, g) ==
    LET tag == ExtractTag(At(stream, 0, g))
        popped == PopFront(stream, NbrGateMarkerElements)
    IN  IF tag # DummyGate
        THEN [err |-> "ExpectedDummy", stream |-> stream]
        ELSE popped

\* (variant: one dummy marker is walked through, not all of them)
WalkthroughOneDummyMarker(stream, g) ==
    IF Size(stream) = 0
    THEN [err |-> "", stream |-> stream, exhausted |-> TRUE]
    ELSE IF ExtractTag(At(stream, 0, g)) # DummyGate
    THEN [err |-> "", stream |-> stream, exhausted |-> FALSE]
    ELSE LET w == WalkthroughDummyMarker(stream, g)
         IN  [err |-> w.err, stream |-> w.stream,
              exhausted |-> w.err = "" /\ Size(w.stream) = 0]

\* The for(;;) loop of DecodeNextMarkerZeroSuppressMode: walks through all
\* dummy markers; exhausted when it returned on an empty stream.
RECURSIVE WalkthroughAllDummyMarkers(_, _)
WalkthroughAllDummyMarkers(stream, g) ==
    IF Size(stream) = 0
    THEN [err |-> "", stream |-> stream, exhausted |-> TRUE]
    ELSE IF ExtractTag(At(stream, 0, g)) # DummyGate
    THEN [err |-> "", stream |-> stream, exhausted |-> FALSE]
    ELSE LET w == WalkthroughDummyMarker(stream, g)
         IN  IF w.err # ""
             THEN [err |-> w.err, stream |-> w.stream, exhausted |-> FALSE]
             ELSE WalkthroughAllDummyMarkers(w.stream, g)

\* RecordDescriptor::SetTriggerMarker / AddGate / SetRecordStopMarker
SetTriggerMarker(record, t) == [record EXCEPT !.m_trigger = t]

\* (variant: the gate is inserted at the head of the list)
AddGateFront(record, gate) == [record EXCEPT !.m_gateList = << gate >> \o @]

AddGate(record, gate) == [record EXCEPT !.m_gateList = Append(@, gate)]

SetRecordStopMarker(record, recordStop) ==
    IF ~IsRecordStop(recordStop)
    THEN [err |-> "ExpectedRecordStop", val |-> record]
    ELSE [err |-> "", val |-> [record EXCEPT !.m_recordStop = recordStop]]

\* (variant: the queue shares its last record with m_currentRecord, so that
\* starting a new record writes through to the record queued last)
DecodeExpectTriggerShared(d, stream, g) ==
    LET walk == WalkthroughAllDummyMarkers(stream, g)
        trig == DecodeTriggerMarker(walk.stream, g)
        n == Len(d.m_recordQueue)
        reset == IF n = 0 THEN d.m_recordQueue
                 ELSE [d.m_recordQueue EXCEPT ![n] = DefaultRecordDescriptor]
        started == IF n = 0 THEN d.m_recordQueue
                   ELSE [d.m_recordQueue EXCEPT
                           ![n] = SetTriggerMarker(DefaultRecordDescriptor,
                                                   trig.val)]
    IN  IF walk.err # ""
        THEN [err |-> walk.err, dec |-> d, stream |-> walk.stream]
        ELSE IF walk.exhausted
        THEN [err |-> "", dec |-> d, stream |-> walk.stream]
        ELSE IF trig.err # ""
        THEN [err |-> trig.err,
              dec |-> [d EXCEPT !.m_currentRecord = DefaultRecordDescriptor,
                                !.m_recordQueue = reset],
              stream |-> trig.stream]
        ELSE [err |-> "",
              dec |-> [d EXCEPT
                         !.m_currentRecord =
                             SetTriggerMarker(DefaultRecordDescriptor, trig.val),
                         !.m_recordQueue = started,
                         !.m_state = "ExpectGate"],
              stream |-> trig.stream]

\* The ExpectTrigger / ExpectAlign branch of DecodeNextMarkerZeroSuppressMode
DecodeExpectTrigger(d, stream, g) ==
    LET walk == WalkthroughAllDummyMarkers(stream, g)
        trig == DecodeTriggerMarker(walk.stream, g)
    IN  IF walk.err # ""
        THEN [err |-> walk.err, dec |-> d, stream |-> walk.stream]
        ELSE IF walk.exhausted
        THEN [err |-> "", dec |-> d, stream |-> walk.stream]
        ELSE IF trig.err # ""
        THEN [err |-> trig.err,
              dec |-> [d EXCEPT !.m_currentRecord = DefaultRecordDescriptor],
              stream |-> trig.stream]
        ELSE [err |-> "",
              dec |-> [d EXCEPT
                         !.m_currentRecord =
                             SetTriggerMarker(DefaultRecordDescriptor, trig.val),
                         !.m_state = "ExpectGate"],
              stream |-> trig.stream]

\* (variant: a completed record takes the decoder back to its initial state)
CompleteRecordExpectTrigger(d, isRecordStop) ==
    IF isRecordStop
    THEN [d EXCEPT !.m_recordQueue = Append(@, d.m_currentRecord),
                   !.m_state = "ExpectTrigger"]
    ELSE d

\* Record completion: push_back(m_currentRecord), m_state = ExpectAlign
CompleteRecord(d, isRecordStop) ==
    IF isRecordStop
    THEN [d EXCEPT !.m_recordQueue = Append(@, d.m_currentRecord),
                   !.m_state = "ExpectAlign"]
    ELSE d

\* (variant: a standalone GateStopCst is taken for a stop marker as well)
DecodeExpectGateAnyStop(d, stream, g) ==
    LET tag == ExtractTag(At(stream, 0, g))
        stop == DecodeStopMarker(stream, g)
    IN  IF tag = GateStopCst
        THEN [err |-> stop.err, dec |-> d, stream |-> stop.stream]
        ELSE [err |-> "ExpectedGate", dec |-> d, stream |-> stream]

\* (variant: a marker that is no gate sends the decoder back to
\* ExpectTrigger as the call fails)
DecodeExpectGateResync(d, stream, g) ==
    LET tag == ExtractTag(At(stream, 0, g))
        gate == DecodeGateMarker(stream, g)
        withGate == AddGate(d.m_currentRecord, gate.val)
        gateStop == SetRecordStopMarker(withGate, gate.val.m_stopMarker)
        stop == DecodeStopMarker(stream, g)
        loneStop == SetRecordStopMarker(d.m_currentRecord, stop.val)
    IN  IF tag = GateStartCst
        THEN IF gate.err # ""
             THEN [err |-> gate.err, dec |-> d, stream |-> gate.stream]
             ELSE IF IsRecordStop(gate.val.m_stopMarker)
             THEN [err |-> "",
                   dec |-> CompleteRecord(
                             [d EXCEPT !.m_currentRecord = gateStop.val], TRUE),
                   stream |-> gate.stream]
             ELSE [err |-> "",
                   dec |-> CompleteRecord(
                             [d EXCEPT !.m_currentRecord = withGate], FALSE),
                   stream |-> gate.stream]
        ELSE IF tag = RecordStop
        THEN IF stop.err # ""
             THEN [err |-> stop.err, dec |-> d, stream |-> stop.stream]
             ELSE IF loneStop.err # ""
             THEN [err |-> loneStop.err, dec |-> d, stream |-> stop.stream]
             ELSE [err |-> "",
                   dec |-> CompleteRecord(
                             [d EXCEPT !.m_currentRecord = loneStop.val],
                             IsRecordStop(stop.val)),
                   stream |-> stop.stream]
        ELSE [err |-> "ExpectedGate",
              dec |-> [d EXCEPT !.m_state = "ExpectTrigger"],
              stream |-> stream]

\* The ExpectGate branch of DecodeNextMarkerZeroSuppressMode
DecodeExpectGate(d, stream, g) ==
    LET tag == ExtractTag(At(stream, 0, g))
        gate == DecodeGateMarker(stream, g)
        withGate == AddGate(d.m_currentRecord, gate.val)
        gateStop == SetRecordStopMarker(withGate, gate.val.m_stopMarker)
        stop == DecodeStopMarker(stream, g)
        loneStop == SetRecordStopMarker(d.m_currentRecord, stop.val)
    IN  IF tag = GateStartCst
        THEN IF gate.err # ""
             THEN [err |-> gate.err, dec |-> d, stream |-> gate.stream]
             ELSE IF IsRecordStop(gate.val.m_stopMarker)
             THEN [err |-> "",
                   dec |-> CompleteRecord(
                             [d EXCEPT !.m_currentRecord = gateStop.val], TRUE),
                   stream |-> gate.stream]
             ELSE [err |-> "",
                   dec |-> CompleteRecord(
                             [d EXCEPT !.m_currentRecord = withGate], FALSE),
                   stream |-> gate.stream]
        ELSE IF tag = RecordStop
        THEN IF stop.err # ""
             THEN [err |-> stop.err, dec |-> d, stream |-> stop.stream]
             ELSE IF loneStop.err # ""
             THEN [err |-> loneStop.err, dec |-> d, stream |-> stop.stream]
             ELSE [err |-> "",
                   dec |-> CompleteRecord(
                             [d EXCEPT !.m_currentRecord = loneStop.val],
                             IsRecordStop(stop.val)),
                   stream |-> stop.stream]
        ELSE [err |-> "ExpectedGate", dec |-> d, stream |-> stream]

\* (variant: the second branch is an "if", not an "else if", so a call that
\* decoded a trigger goes on with the gate that follows it)
DecodeNextMarkerZeroSuppressModeFallThrough(d, stream, g) ==
    LET first == DecodeExpectTrigger(d, stream, g)
    IN  IF d.m_state = "ExpectTrigger" \/ d.m_state = "ExpectAlign"
        THEN IF first.err = "" /\ first.dec.m_state = "ExpectGate"
                  /\ Size(first.stream) > 0
             THEN DecodeExpectGate(first.dec, first.stream, g)
             ELSE first
        ELSE DecodeExpectGate(d, stream, g)

\* MarkerStreamDecoder::DecodeNextMarkerZeroSuppressMode
DecodeNextMarkerZeroSuppressMode(d, stream, g) ==
    IF d.m_state = "ExpectTrigger" \/ d.m_state = "ExpectAlign"
    THEN DecodeExpectTrigger(d, stream, g)
    ELSE IF d.m_state = "ExpectGate"
    THEN DecodeExpectGate(d, stream, g)
    ELSE [err |-> "UnexpectedState", dec |-> d, stream |-> stream]

\* (variant: push_front instead of push_back)
DecodeNextMarkerNormalModeFront(d, stream, g) ==
    LET trig == DecodeTriggerMarker(stream, g)
        recordDescriptor == SetTriggerMarker(DefaultRecordDescriptor, trig.val)
    IN  IF trig.err # ""
        THEN [err |-> trig.err, dec |-> d, stream |-> trig.stream]
        ELSE [err |-> "",
              dec |-> [d EXCEPT !.m_recordQueue = << recordDescriptor >> \o @],
              stream |-> trig.stream]

\* (variant: a decoded trigger leaves the decoder waiting for gates)
DecodeNextMarkerNormalModeExpectGate(d, stream, g) ==
    LET trig == DecodeTriggerMarker(stream, g)
        recordDescriptor == SetTriggerMarker(DefaultRecordDescriptor, trig.val)
    IN  IF trig.err # ""
        THEN [err |-> trig.err, dec |-> d, stream |-> trig.stream]
        ELSE [err |-> "",
              dec |-> [d EXCEPT !.m_recordQueue = Append(@, recordDescriptor),
                                !.m_state = "ExpectGate"],
              stream |-> trig.stream]

\* MarkerStreamDecoder::DecodeNextMarkerNormalMode
DecodeNextMarkerNormalMode(d, stream, g) ==
    LET trig == DecodeTriggerMarker(stream, g)
        recordDescriptor == SetTriggerMarker(DefaultRecordDescriptor, trig.val)
    IN  IF trig.err # ""
        THEN [err |-> trig.err, dec |-> d, stream |-> trig.stream]
        ELSE [err |-> "",
              dec |-> [d EXCEPT !.m_recordQueue = Append(@, recordDescriptor)],
              stream |-> trig.stream]

\* (variant: a marker that is not expected in the current state is left in
\* the stream and the call returns normally)
DecodeNextMarkerLenient(d, stream, g) ==
    LET r == IF d.m_mode = "ZeroSuppress"
             THEN DecodeNextMarkerZeroSuppressMode(d, stream, g)
             ELSE DecodeNextMarkerNormalMode(d, stream, g)
    IN  IF Size(stream) = 0
        THEN [err |-> "EmptyStream", dec |-> d, stream |-> stream]
        ELSE IF r.err \in {"ExpectedGate", "ExpectedTrigger"}
        THEN [err |-> "", dec |-> d, stream |-> stream]
        ELSE r

\* (variant: no check for an empty stream before the mode is dispatched)
DecodeNextMarkerNoSizeCheck(d, stream, g) ==
    IF d.m_mode = "ZeroSuppress"
    THEN DecodeNextMarkerZeroSuppressMode(d, stream, g)
    ELSE IF d.m_mode = "Normal"
    THEN DecodeNextMarkerNormalMode(d, stream, g)
    ELSE [err |-> "UnexpectedMode", dec |-> d, stream |-> stream]

\* MarkerStreamDecoder::DecodeNextMarker
DecodeNextMarker(d, stream, g) ==
    IF Size(stream) = 0
    THEN [err |-> "EmptyStream", dec |-> d, stream |-> stream]
    ELSE IF d.m_mode = "ZeroSuppress"
    THEN DecodeNextMarkerZeroSuppressMode(d, stream, g)
    ELSE IF d.m_mode = "Normal"
    THEN DecodeNextMarkerNormalMode(d, stream, g)
    ELSE [err |-> "UnexpectedMode", dec |-> d, stream |-> stream]

\* MarkerStreamDecoder::GetAvailableRecordCount
GetAvailableRecordCount(d) == Len(d.m_recordQueue)

\* (variant: back() / pop_back() instead of front() / pop_front())
PopBack(d) ==
    IF d.m_recordQueue = << >>
    THEN [err |-> "PopEmpty", dec |-> d, ret |-> << >>]
    ELSE [err |-> "",
          dec |-> [d EXCEPT !.m_recordQueue = SubSeq(@, 1, Len(@) - 1)],
          ret |-> << d.m_recordQueue[Len(d.m_recordQueue)] >>]

\* MarkerStreamDecoder::Pop: [err, dec, ret]
Pop(d) ==
    IF d.m_recordQueue = << >>
    THEN [err |-> "PopEmpty", dec |-> d, ret |-> << >>]
    ELSE [err |-> "",
          dec |-> [d EXCEPT !.m_recordQueue = Tail(@)],
          ret |-> << Head(d.m_recordQueue) >>]

\* The loop of Take: count times result.push_back(Pop())
RECURSIVE TakeLoop(_, _, _)
TakeLoop(d, count, result) ==
    IF count = 0
    THEN [err |-> "", dec |-> d, ret |-> result]
    ELSE LET p == Pop(d)
         IN  IF p.err # ""
             THEN [err |-> p.err, dec |-> p.dec, ret |-> result]
             ELSE TakeLoop(p.dec, count - 1, result \o p.ret)

\* (variant: the availability test is <= instead of <)
TakeOffByOne(d, count) ==
    IF count <= 0
    THEN [err |-> "TakeCount", dec |-> d, ret |-> << >>]
    ELSE IF GetAvailableRecordCount(d) <= count
    THEN [err |-> "TakeAvailable", dec |-> d, ret |-> << >>]
    ELSE TakeLoop(d, count, << >>)

\* MarkerStreamDecoder::Take
Take(d, count) ==
    IF count <= 0
    THEN [err |-> "TakeCount", dec |-> d, ret |-> << >>]
    ELSE IF GetAvailableRecordCount(d) < count
    THEN [err |-> "TakeAvailable", dec |-> d, ret |-> << >>]
    ELSE TakeLoop(d, count, << >>)

\* ------------------------------------------------- the firmware's markers
\* What the firmware emits is described marker by marker: a chunk is
\* [kind, tag, idx, aux, abs, stopTag, stopIdx, stopAux], and Elements(c) is
\* its wire encoding (the layout the decoding functions above read).
Chunk(kind, tag, idx, aux, abs, stopTag, stopIdx, stopAux) ==
    [kind |-> kind, tag |-> tag, idx |-> idx, aux |-> aux, abs |-> abs,
     stopTag |-> stopTag, stopIdx |-> stopIdx, stopAux |-> stopAux]

\* 64-bit marker: tag in bits 0..7 of element 0, position in bits 24..31 of
\* element 0 and 0..23 of element 1, sample index in bits 24..31 of element 1
Marker64(tag, position, index) ==
    << tag + (position % Pow2_8) * Pow2_24,
       (position \div Pow2_8) + index * Pow2_24 >>

\* 512-bit trigger marker: 3 meaningful elements and 13 of padding
TriggerElements(c) ==
    << c.tag + c.idx * Pow2_8,
       c.aux + (c.abs % Pow2_24) * Pow2_8,
       c.abs \div Pow2_24 >>
    \o [i \in 1..(NbrTriggerMarkerElements - 3) |-> 0]

Elements(c) ==
    CASE c.kind = "dummy" -> Marker64(DummyGate, 0, 0)
      [] c.kind = "trigger" -> TriggerElements(c)
      [] c.kind = "truncated" -> SubSeq(TriggerElements(c), 1, 3)
      [] c.kind = "gate" -> Marker64(c.tag, c.idx, c.aux)
                            \o Marker64(c.stopTag, c.stopIdx, c.stopAux)
      [] c.kind = "gatestart" -> Marker64(c.tag, c.idx, c.aux)
      [] c.kind = "stop" -> Marker64(c.stopTag, c.stopIdx, c.stopAux)
      [] OTHER -> Marker64(c.tag, c.idx, c.aux)

RECURSIVE Flatten(_)
Flatten(cs) == IF cs = << >> THEN << >> ELSE Elements(Head(cs)) \o Flatten(Tail(cs))

Dummy == Chunk("dummy", DummyGate, 0, 0, 0, 0, 0, 0)
TrigN == Chunk("trigger", TriggerNormal, 1, 3, Pow2_24 + 5, 0, 0, 0)
TrigA == Chunk("trigger", TriggerAverager, 2, 0, 7, 0, 0, 0)
TrigShort == Chunk("truncated", TriggerNormal, 1, 3, 5, 0, 0, 0)
GateCst == Chunk("gate", GateStartCst, 1, 2, 0, GateStopCst, 2, 3)
GateRS == Chunk("gate", GateStartCst, 2, 0, 0, RecordStop, 2, 1)
GateBadStop == Chunk("gate", GateStartCst, 1, 0, 0, TagNone, 1, 0)
GateStartOnly == Chunk("gatestart", GateStartCst, 1, 1, 0, 0, 0, 0)
StopCstOnly == Chunk("stop", 0, 0, 0, 0, GateStopCst, 2, 0)
StopRS == Chunk("stop", 0, 0, 0, 0, RecordStop, 2, 1)
NoneMarker == Chunk("other", TagNone, 0, 0, 0, 0, 0, 0)

\* The markers a session draws from. In Normal mode the firmware issues
\* trigger markers only; the other symbols stand for malformed input.
Alphabet(mode) ==
    IF mode = "Normal"
    THEN {TrigN, TrigA, TrigShort, Dummy, NoneMarker}
    ELSE {Dummy, TrigN, TrigA, GateCst, GateRS, GateBadStop, GateStartOnly,
          StopCstOnly, StopRS, NoneMarker}

\* Well-formed ZeroSuppress markers only.
WellFormedAlphabet == {Dummy, TrigN, GateCst, GateRS, StopRS}

\* Values an out-of-vector read can produce: a None header, a gate-stop and
\* a record-stop header.
OobValues == {TagNone, GateStopCst + Pow2_24, RecordStop + Pow2_24}

SeqsUpTo(S, n) == UNION {[1..k -> S] : k \in 1..n}

\* ------------------------------------------------------------------ state
VARIABLES
    m_recordQueue,    \* std::list<RecordDescriptor>
    m_currentRecord,  \* the in-progress record
    m_mode,           \* Mode, fixed at construction
    m_state,          \* State
    stream,           \* the marker segment the control loop decodes from
    fetched,          \* the markers the current stream was built from
    emitted,          \* all markers fetched so far, over all streams
    atFetch,          \* decoder state and records completed at the last fetch
    completed,        \* every record pushed to the queue, in push order
    returned,         \* every record returned by Take / Pop, in call order
    last,             \* the last call: [op, err, count, ret, consumed]
    pure,             \* a library function under test: its call and outcome
    batch,            \* the sample processing of a batch of taken records
    fe,               \* FetchElements: its arguments, locals and outcome
    main              \* main of an example program: its position and session

vars == << m_recordQueue, m_currentRecord, m_mode, m_state, stream, fetched,
           emitted, atFetch, completed, returned, last, pure, batch, fe,
           main >>

\* The decoder session, at rest while a library function is exercised alone.
decoderVars == << m_recordQueue, m_currentRecord, m_mode, m_state, stream,
                 fetched, emitted, atFetch, completed, returned, last >>

\* The variables of the other components, untouched by the decoder session.
otherVars == << pure, batch, fe, main >>

NoCall == [fn |-> "None"]
NoBatch == [pc |-> "None"]
NoFetch == [pc |-> "None"]
NoMain == [pc |-> "None"]

Dec == [m_recordQueue |-> m_recordQueue, m_currentRecord |-> m_currentRecord,
        m_mode |-> m_mode, m_state |-> m_state]

\* A call as its caller sees it: the exception (err), the argument of Take
\* (count), the records returned (ret), the elements popped from the stream.
Call(op, err, count, ret, consumed) ==
    [op |-> op, err |-> err, count |-> count, ret |-> ret, consumed |-> consumed]

\* MarkerStreamDecoder(Mode mode), and a control loop that fetched nothing yet
DecoderInit ==
    /\ m_mode \in {"Normal", "ZeroSuppress"}
    /\ m_recordQueue = << >>
    /\ m_currentRecord = DefaultRecordDescriptor
    /\ m_state = "ExpectTrigger"
    /\ stream = ArraySegment(<< >>, 0, 0)
    /\ fetched = << >>
    /\ emitted = << >>
    /\ atFetch = [m_state |-> "ExpectTrigger", completed |-> 0]
    /\ completed = << >>
    /\ returned = << >>
    /\ last = Call("None", "", 0, << >>, 0)

Init ==
    /\ DecoderInit
    /\ pure = NoCall
    /\ batch = NoBatch
    /\ fe = NoFetch
    /\ main = NoMain

SetDec(d) ==
    /\ m_recordQueue' = d.m_recordQueue
    /\ m_currentRecord' = d.m_currentRecord
    /\ m_mode' = d.m_mode
    /\ m_state' = d.m_state

\* The record a call appended to the queue, wherever it was inserted.
Pushed(q, q2) ==
    IF Len(q2) = Len(q) + 1
    THEN LET i == CHOOSE i \in 1..Len(q2) :
                    [j \in 1..Len(q) |-> IF j < i THEN q2[j] ELSE q2[j + 1]] = q
         IN  << q2[i] >>
    ELSE << >>

\* The control loop fetches a new marker segment once the previous one has
\* been decoded to the end (while (markerArraySegment.Size() > 0) ...). A
\* truncated marker can only be the last one of a segment.
Fetch(alphabet, max) ==
    /\ Size(stream) = 0
    /\ Len(emitted) < max
    /\ \E cs \in SeqsUpTo(alphabet, max - Len(emitted)) :
         /\ \A i \in 1..(Len(cs) - 1) : cs[i].kind # "truncated"
         /\ stream' = ArraySegment(Flatten(cs), 0, Len(Flatten(cs)))
         /\ fetched' = cs
         /\ emitted' = emitted \o cs
    /\ atFetch' = [m_state |-> m_state, completed |-> Len(completed)]
    /\ last' = Call("Fetch", "", 0, << >>, 0)
    /\ UNCHANGED << m_recordQueue, m_currentRecord, m_mode, m_state,
                    completed, returned >>
    /\ UNCHANGED otherVars

\* markerStreamDecoder.DecodeNextMarker(markerArraySegment)
Decode ==
    \E g \in OobValues :
      LET r == DecodeNextMarker(Dec, stream, g)
      IN  /\ SetDec(r.dec)
          /\ stream' = r.stream
          /\ completed' = completed \o Pushed(m_recordQueue, r.dec.m_recordQueue)
          /\ last' = Call("Decode", r.err, 0, << >>,
                         r.stream.m_offset - stream.m_offset)
          /\ UNCHANGED << fetched, emitted, atFetch, returned >>
          /\ UNCHANGED otherVars

\* markerStreamDecoder.Take(count)
DoTake ==
    \E count \in -1..MaxTake :
      LET r == Take(Dec, count)
      IN  /\ SetDec(r.dec)
          /\ returned' = returned \o r.ret
          /\ last' = Call("Take", r.err, count, r.ret, 0)
          /\ UNCHANGED << stream, fetched, emitted, atFetch, completed >>
          /\ UNCHANGED otherVars

\* markerStreamDecoder.Pop()
DoPop ==
    LET r == Pop(Dec)
    IN  /\ SetDec(r.dec)
        /\ returned' = returned \o r.ret
        /\ last' = Call("Pop", r.err, 1, r.ret, 0)
        /\ UNCHANGED << stream, fetched, emitted, atFetch, completed >>
        /\ UNCHANGED otherVars

\* Any markers, well-formed or not, in either mode.
FetchMarkers == Fetch(Alphabet(m_mode), MaxChunks)

Next == FetchMarkers \/ Decode \/ DoTake \/ DoPop

Spec == Init /\ [][Next]_vars

\* A ZeroSuppress session whose markers are all well-formed ones.
FetchWellFormed == Fetch(WellFormedAlphabet, MaxWellFormed)

InitWF == Init /\ m_mode = "ZeroSuppress"

NextWF == FetchWellFormed \/ Decode \/ DoTake \/ DoPop

SpecWF == InitWF /\ [][NextWF]_vars

\* ------------------------------------------- what the markers should give
\* The trigger, gate and stop markers a chunk describes, field by field.
TriggerOf(c) ==
    [tag |-> c.tag, triggerTimeSamples |-> -c.aux,
     absoluteSampleIndex |-> [top |-> 0, hi |-> c.abs \div Pow2_24,
                             lo |-> c.abs % Pow2_24],
     recordIndex |-> c.idx]

StopOf(c) ==
    [m_blockIndex |-> c.stopIdx, m_gateEndIndex |-> c.stopAux, m_tag |-> c.stopTag]

GateOf(c) ==
    [m_startMarker |-> [m_blockIndex |-> c.idx, m_startSampleIndex |-> c.aux],
     m_stopMarker |-> StopOf(c)]

IsDummy(c) == c.kind = "dummy"
IsTrigger(c) == c.kind = "trigger" /\ IsTriggerMarkerTag(c.tag)
IsGate(c, stopTag) ==
    /\ c.kind = "gate" /\ c.tag = GateStartCst /\ c.stopTag = stopTag
    /\ 1 <= c.idx /\ c.idx <= c.stopIdx
IsLoneRecordStop(c) == c.kind = "stop" /\ c.stopTag = RecordStop /\ 1 <= c.stopIdx

ChunkLen(c) == Len(Elements(c))

\* Offset, in elements, of the k-th chunk of cs (k = Len(cs) + 1: the end).
RECURSIVE OffsetOf(_, _)
OffsetOf(cs, k) == IF k <= 1 THEN 0 ELSE OffsetOf(cs, k - 1) + ChunkLen(cs[k - 1])

\* A stop that directly follows a lone gate start is the second half of one
\* gate marker.
IsPairTail(cs, k) ==
    k > 1 /\ k <= Len(cs) /\ cs[k].kind = "stop" /\ cs[k - 1].kind = "gatestart"

\* The logical markers of cs (by index of their first chunk), and the offsets
\* at which a logical marker begins (the end of the stream included).
LogicalMarkers(cs) == {k \in 1..Len(cs) : ~IsPairTail(cs, k)}
MarkerStarts(cs) ==
    {OffsetOf(cs, k) : k \in LogicalMarkers(cs) \cup {Len(cs) + 1}}

\* The logical markers of cs that begin in [from, to).
MarkersIn(cs, from, to) ==
    {k \in LogicalMarkers(cs) : from <= OffsetOf(cs, k) /\ OffsetOf(cs, k) < to}

ZeroSuppressMode == m_mode = "ZeroSuppress"
NormalMode == m_mode = "Normal"
Exhausted == Size(stream) = 0
AlignStates == {"ExpectTrigger", "ExpectAlign"}

\* ------------------------------------------------------------------- C1
\* dummies, one trigger, gates stopped by GateStopCst, then a gate stopped by
\* RecordStop or a standalone record stop
OneRecordStream(cs) ==
    \E t \in 1..(Len(cs) - 1) :
      /\ \A i \in 1..(t - 1) : IsDummy(cs[i])
      /\ IsTrigger(cs[t])
      /\ \A i \in (t + 1)..(Len(cs) - 1) : IsGate(cs[i], GateStopCst)
      /\ IsGate(cs[Len(cs)], RecordStop) \/ IsLoneRecordStop(cs[Len(cs)])

ExpectedRecord(cs) ==
    LET t == CHOOSE t \in 1..Len(cs) : IsTrigger(cs[t])
        gates == SelectSeq(cs, LAMBDA c : c.kind = "gate")
    IN  [m_trigger |-> TriggerOf(cs[t]),
         m_gateList |-> [i \in 1..Len(gates) |-> GateOf(gates[i])],
         m_recordStop |-> StopOf(cs[Len(cs)])]

\* C1: in ZeroSuppress mode, from ExpectTrigger or ExpectAlign, decoding a
\* stream of dummies, one trigger, n gates stopped by GateStopCst and a final
\* gate stopped by RecordStop (or a standalone record stop) raises no error,
\* completes no record before the stream is exhausted and exactly one when it
\* is: that record has the trigger, the gates in stream order and the
\* terminating stop as record stop, and the decoder is in ExpectAlign.
C1_OneRecordPerWellFormedStream ==
    (ZeroSuppressMode /\ atFetch.m_state \in AlignStates /\ OneRecordStream(fetched))
    => /\ (last.op = "Decode" => last.err \in {"", "EmptyStream"})
       /\ ~Exhausted => Len(completed) = atFetch.completed
       /\ Exhausted =>
            /\ Len(completed) = atFetch.completed + 1
            /\ completed[Len(completed)] = ExpectedRecord(fetched)
            /\ m_state = "ExpectAlign"

\* The instance of the specification: trigger, gate (GateStopCst), gate
\* (RecordStop), decoded to the end, gave a record of exactly 2 gates.
C1_Witness ==
    /\ ZeroSuppressMode /\ Exhausted
    /\ fetched = << TrigN, GateCst, GateRS >>
    /\ Len(completed) = 1
    /\ Len(completed[1].m_gateList) = 2
    /\ m_state = "ExpectAlign"

\* ------------------------------------------------------------------- C2
TriggerRecord(c) == SetTriggerMarker(DefaultRecordDescriptor, TriggerOf(c))

\* C2: in Normal mode, on a stream of K well-formed trigger markers, after k
\* successful calls the stream has lost exactly 16*k elements and the queue
\* has gained exactly the records of the first k markers, in stream order;
\* the stream is empty exactly when k = K.
C2_NormalModeKRecords ==
    (NormalMode /\ fetched # << >> /\ \A i \in 1..Len(fetched) : IsTrigger(fetched[i]))
    => LET k == stream.m_offset \div NbrTriggerMarkerElements
           n == atFetch.completed
       IN  /\ stream.m_offset = NbrTriggerMarkerElements * k
           /\ Size(stream) = NbrTriggerMarkerElements * (Len(fetched) - k)
           /\ Len(completed) = n + k
           /\ \A i \in 1..k : completed[n + i] = TriggerRecord(fetched[i])
           /\ returned = << >> =>
                /\ Len(m_recordQueue) = n + k
                /\ \A i \in 1..k : m_recordQueue[n + i] = TriggerRecord(fetched[i])
           /\ (last.op = "Decode" /\ last.err = "") =>
                last.consumed = NbrTriggerMarkerElements

C2_Witness ==
    /\ NormalMode /\ Exhausted
    /\ fetched = << TrigN, TrigA, TrigN >>
    /\ Len(m_recordQueue) = 3
    /\ m_recordQueue[2].m_trigger.tag = TriggerAverager

\* ------------------------------------------------------------------- C3
\* C3: over any interleaving of DecodeNextMarker, Take and Pop, the records
\* returned so far followed by the records still queued are exactly the
\* records completed so far, in completion order (so what was returned is a
\* prefix of what was completed, nothing twice, nothing skipped, and the
\* available count is completed minus returned).
C3_FifoDelivery ==
    /\ completed = returned \o m_recordQueue
    /\ GetAvailableRecordCount(Dec) = Len(completed) - Len(returned)

C3_Witness ==
    /\ Len(returned) = 2 /\ Len(m_recordQueue) = 1
    /\ returned[1] # returned[2]
    /\ last.op = "Pop" /\ last.err = ""

\* ------------------------------------------------------------------- C4
\* C4: Take(n) fails iff n <= 0 or n > GetAvailableRecordCount(), Pop fails
\* iff the queue is empty; a failing call leaves the queue as it was and
\* returns nothing; a successful Take(n) returns the first n queued records
\* in queue order and leaves the others queued in their order.
C4_TakePopContract ==
    [][ /\ last'.op = "Take" =>
             LET n == last'.count
                 q == m_recordQueue
             IN  /\ (last'.err # "") <=> (n <= 0 \/ n > GetAvailableRecordCount(Dec))
                 /\ last'.err # "" => (m_recordQueue' = q /\ last'.ret = << >>)
                 /\ last'.err = "" =>
                      /\ last'.ret = SubSeq(q, 1, n)
                      /\ m_recordQueue' = SubSeq(q, n + 1, Len(q))
        /\ last'.op = "Pop" =>
             LET q == m_recordQueue
             IN  /\ (last'.err # "") <=> (q = << >>)
                 /\ last'.err # "" => (m_recordQueue' = q /\ last'.ret = << >>)
                 /\ last'.err = "" =>
                      (last'.ret = << Head(q) >> /\ m_recordQueue' = Tail(q))
      ]_vars

C4_Witness ==
    /\ last.op = "Take" /\ last.err = "" /\ last.count = 2
    /\ Len(last.ret) = 2 /\ last.ret[1] # last.ret[2]
    /\ Len(m_recordQueue) = 1

\* ------------------------------------------------------------------- C5
\* The exceptions raised for a tag that is not the one the position requires.
TagErrors ==
    {"ExpectedTrigger", "ExpectedGate", "ExpectedGateStart", "ExpectedStop",
     "ExpectedDummy"}

\* C5: after a DecodeNextMarker call that began at the beginning of a marker
\* and failed on an invalid tag, the stream cursor stands at the beginning of
\* a whole marker (a gate marker, start and stop, being one marker): no
\* marker is left partially consumed.
C5_NoPartialMarker ==
    (/\ last.op = "Decode" /\ last.err \in TagErrors
     /\ (stream.m_offset - last.consumed) \in MarkerStarts(fetched))
    => stream.m_offset \in MarkerStarts(fetched)

\* ------------------------------------------------------------------- C6
\* The marker sequence of cs, one entry per 64-bit or 512-bit marker:
\* D dummy, T trigger, S gate start, E gate stop, R record stop, X other.
StopKind(tag) ==
    IF tag = GateStopCst THEN "E" ELSE IF tag = RecordStop THEN "R" ELSE "X"

MarkersOfChunk(c) ==
    CASE c.kind = "dummy" -> << [k |-> "D", idx |-> 0] >>
      [] c.kind = "trigger" ->
           << [k |-> IF IsTriggerMarkerTag(c.tag) THEN "T" ELSE "X", idx |-> 0] >>
      [] c.kind = "gate" ->
           << [k |-> IF c.tag = GateStartCst THEN "S" ELSE "X", idx |-> c.idx],
              [k |-> StopKind(c.stopTag), idx |-> c.stopIdx] >>
      [] c.kind = "gatestart" ->
           << [k |-> IF c.tag = GateStartCst THEN "S" ELSE "X", idx |-> c.idx] >>
      [] c.kind = "stop" -> << [k |-> StopKind(c.stopTag), idx |-> c.stopIdx] >>
      [] OTHER -> << [k |-> "X", idx |-> 0] >>

RECURSIVE MarkersOf(_)
MarkersOf(cs) ==
    IF cs = << >> THEN << >> ELSE MarkersOfChunk(Head(cs)) \o MarkersOf(Tail(cs))

\* The protocol of section 4.3 as an automaton over markers: A (align or
\* trigger expected), G (gate expected), P (stop of the open gate expected).
WfStep(st, m) ==
    CASE st.s = "A" /\ m.k = "D" -> st
      [] st.s = "A" /\ m.k = "T" -> [s |-> "G", start |-> 0]
      [] st.s = "G" /\ m.k = "S" /\ m.idx >= 1 -> [s |-> "P", start |-> m.idx]
      [] st.s = "G" /\ m.k = "R" /\ m.idx >= 1 -> [s |-> "A", start |-> 0]
      [] st.s = "P" /\ m.k = "E" /\ m.idx >= st.start -> [s |-> "G", start |-> 0]
      [] st.s = "P" /\ m.k = "R" /\ m.idx >= st.start -> [s |-> "A", start |-> 0]
      [] OTHER -> [s |-> "bad", start |-> 0]

RECURSIVE WfRun(_, _)
WfRun(ms, st) == IF ms = << >> THEN st ELSE WfRun(Tail(ms), WfStep(st, Head(ms)))

\* cs is the beginning of a well-formed marker sequence
WellFormedPrefix(cs) == WfRun(MarkersOf(cs), [s |-> "A", start |-> 0]).s # "bad"

\* Decoding a whole sequence as one stream with a fresh decoder.
RECURSIVE DecodeAll(_, _)
DecodeAll(d, s) ==
    IF Size(s) = 0
    THEN [err |-> "", dec |-> d]
    ELSE LET r == DecodeNextMarker(d, s, TagNone)
         IN  IF r.err # "" THEN [err |-> r.err, dec |-> r.dec]
             ELSE DecodeAll(r.dec, r.stream)

WholeDecode(cs) ==
    DecodeAll([m_recordQueue |-> << >>, m_currentRecord |-> DefaultRecordDescriptor,
               m_mode |-> "ZeroSuppress", m_state |-> "ExpectTrigger"],
              ArraySegment(Flatten(cs), 0, Len(Flatten(cs))))

\* C6: in ZeroSuppress mode, decoding a well-formed marker sequence handed
\* over in successive streams, cut at any boundary between two markers (gate
\* start and gate stop being markers), raises no error and, once a stream is
\* exhausted, has completed the same records and reached the same state and
\* in-progress record as decoding the markers received so far as one stream.
C6_SplitSameAsWhole ==
    (ZeroSuppressMode /\ WellFormedPrefix(emitted))
    => /\ (last.op = "Decode" => last.err \in {"", "EmptyStream"})
       /\ (Exhausted /\ WholeDecode(emitted).err = "") =>
            LET whole == WholeDecode(emitted).dec
            IN  /\ completed = whole.m_recordQueue
                /\ m_state = whole.m_state
                /\ m_currentRecord = whole.m_currentRecord

\* ------------------------------------------------------------------- C7
\* The logical markers the last call removed from the stream.
RemovedByLastCall ==
    MarkersIn(fetched, stream.m_offset - last.consumed, stream.m_offset)

\* C7 as stated: no DecodeNextMarker call removes two or more markers.
C7_AtMostOneMarker ==
    last.op = "Decode" => Cardinality(RemovedByLastCall) <= 1

\* C7, amended: a DecodeNextMarker call removes at most one marker that is
\* not a dummy (a trigger, a gate or a record stop); the markers it removes
\* besides are Dummy-Gate markers, all in front of it, and are removed only by
\* a call made in ExpectTrigger or ExpectAlign (the call ends in that state
\* when it removed dummies only, and in ExpectGate when it removed a trigger
\* after them).
C7_AtMostOneNonDummy ==
    last.op = "Decode" =>
      LET ms == RemovedByLastCall
          nd == {k \in ms : ~IsDummy(fetched[k])}
      IN  /\ Cardinality(nd) <= 1
          /\ \A k \in nd : \A j \in ms : j <= k
          /\ Cardinality(ms) > 1 =>
               /\ ZeroSuppressMode
               /\ \/ nd = {} /\ m_state \in AlignStates
                  \/ \E k \in nd : IsTrigger(fetched[k]) /\ m_state = "ExpectGate"

\* One call removed two dummies and the trigger behind them.
C7_Witness ==
    /\ last.op = "Decode" /\ last.err = ""
    /\ fetched = << Dummy, Dummy, TrigN >>
    /\ Cardinality(RemovedByLastCall) = 3
    /\ m_state = "ExpectGate"

\* ------------------------------------------------------------------- C8
\* The cursor is at the beginning of a chunk; the chunks from there on.
AtChunk(cs, off) == \E k \in 1..(Len(cs) + 1) : OffsetOf(cs, k) = off
ChunksFrom(cs, off) ==
    SubSeq(cs, CHOOSE k \in 1..(Len(cs) + 1) : OffsetOf(cs, k) = off, Len(cs))

RECURSIVE LeadingDummies(_)
LeadingDummies(cs) ==
    IF cs = << >> \/ ~IsDummy(Head(cs)) THEN 0 ELSE 1 + LeadingDummies(Tail(cs))

\* C8: in ExpectTrigger or ExpectAlign, a call on a non-empty stream that
\* holds dummy markers only consumes them all (2 elements each) and returns
\* without error, state, in-progress record and queue unchanged; a call on a
\* stream that holds d >= 0 dummies and then a trigger marker consumes the
\* dummies and the trigger, makes the trigger the trigger of a new
\* in-progress record and moves to ExpectGate, the queue unchanged.
C8_DummyWalkResumes ==
    [][ (/\ last'.op = "Decode" /\ ZeroSuppressMode /\ m_state \in AlignStates
         /\ Size(stream) > 0 /\ AtChunk(fetched, stream.m_offset))
        => LET rest == ChunksFrom(fetched, stream.m_offset)
               d == LeadingDummies(rest)
           IN  /\ d = Len(rest) =>
                    /\ last'.err = ""
                    /\ Size(stream') = 0
                    /\ last'.consumed = NbrGateMarkerElements * d
                    /\ UNCHANGED << m_state, m_currentRecord, m_recordQueue, completed >>
               /\ (d < Len(rest) /\ IsTrigger(rest[d + 1])) =>
                    /\ last'.err = ""
                    /\ last'.consumed =
                         NbrGateMarkerElements * d + NbrTriggerMarkerElements
                    /\ m_state' = "ExpectGate"
                    /\ m_currentRecord' = TriggerRecord(rest[d + 1])
                    /\ UNCHANGED << m_recordQueue, completed >>
      ]_vars

\* Streams of dummies only were walked through, and the call on the next
\* stream skipped its dummy and decoded the trigger behind it.
C8_Witness ==
    /\ emitted = << Dummy, Dummy, Dummy, TrigN >>
    /\ fetched = << Dummy, TrigN >>
    /\ last.op = "Decode" /\ last.err = ""
    /\ last.consumed = NbrGateMarkerElements + NbrTriggerMarkerElements
    /\ m_state = "ExpectGate"
    /\ m_currentRecord = TriggerRecord(TrigN)

\* ------------------------------------------------------------------- C9
\* C9: in ExpectGate, on a marker whose tag is neither GateStartCst nor
\* RecordStop, DecodeNextMarker fails and changes neither the in-progress
\* record, nor the state, nor the queue, nor the stream.
C9_ExpectGateRejectsOtherTags ==
    [][ (/\ last'.op = "Decode" /\ ZeroSuppressMode /\ m_state = "ExpectGate"
         /\ Size(stream) > 0
         /\ ExtractTag(At(stream, 0, TagNone)) \notin {GateStartCst, RecordStop})
        => /\ last'.err # ""
           /\ UNCHANGED << m_currentRecord, m_state, m_recordQueue, completed, stream >>
      ]_vars

C9_Witness ==
    /\ last.op = "Decode" /\ last.err = "ExpectedGate"
    /\ m_state = "ExpectGate" /\ Size(stream) > 0
    /\ ExtractTag(At(stream, 0, TagNone)) = GateStopCst
    /\ m_currentRecord = TriggerRecord(TrigN)

\* ------------------------------------------------------------------ C10
\* C10: in Normal mode DecodeNextMarker fails whenever the stream holds fewer
\* than 16 elements or its leading tag is not a trigger tag, and a failed
\* call appends no record and leaves stream and queue unchanged.
C10_NormalModeFailure ==
    [][ (last'.op = "Decode" /\ NormalMode)
        => /\ (\/ Size(stream) < NbrTriggerMarkerElements
               \/ ~IsTriggerMarkerTag(ExtractTag(At(stream, 0, TagNone))))
              => last'.err # ""
           /\ last'.err # "" =>
                UNCHANGED << stream, m_recordQueue, completed, m_state >>
      ]_vars

\* A call failed on a stream of 3 elements that begins with a trigger tag.
C10_Witness ==
    /\ NormalMode /\ last.op = "Decode" /\ last.err = "PopFront"
    /\ Size(stream) = 3
    /\ IsTriggerMarkerTag(ExtractTag(At(stream, 0, TagNone)))
    /\ m_recordQueue = << >>

\* ------------------------------------------------- C11: the indexed reads
\* One call of operator[]: the index asked for and the size of the segment
\* at that moment.
ReadAt(s, index) == [index |-> index, size |-> Size(s)]

\* The reads of DecodeTriggerMarker: stream[0], then, past the tag test,
\* stream[1] and stream[2]; PopFront(16) comes after them.
ReadsOfDecodeTriggerMarker(s, g) ==
    {ReadAt(s, 0)} \cup
    (IF IsTriggerMarkerTag(ExtractTag(At(s, 0, g)))
     THEN {ReadAt(s, 1), ReadAt(s, 2)} ELSE {})

\* DecodeGateStartMarker and DecodeStopMarker: stream[0] and stream[1] are
\* the arguments of the constructor, read before PopFront(2).
ReadsOfDecodeGateStartMarker(s) == {ReadAt(s, 0), ReadAt(s, 1)}

ReadsOfDecodeStopMarker(s) == {ReadAt(s, 0), ReadAt(s, 1)}

\* DecodeGateMarker: the stop is read from the stream the start left.
ReadsOfDecodeGateMarker(s, g) ==
    LET start == DecodeGateStartMarker(s, g)
    IN  ReadsOfDecodeGateStartMarker(s) \cup
        (IF start.err = "" THEN ReadsOfDecodeStopMarker(start.stream) ELSE {})

\* The dummy loop: a tag inspection per turn, guarded by Size() == 0, and
\* the stream[0] of WalkthroughDummyMarker.
RECURSIVE ReadsOfWalkthrough(_, _)
ReadsOfWalkthrough(s, g) ==
    IF Size(s) = 0 THEN {}
    ELSE IF ExtractTag(At(s, 0, g)) # DummyGate THEN {ReadAt(s, 0)}
    ELSE LET w == WalkthroughDummyMarker(s, g)
         IN  {ReadAt(s, 0)} \cup
             (IF w.err = "" THEN ReadsOfWalkthrough(w.stream, g) ELSE {})

\* All the reads of one DecodeNextMarker call.
ReadsOfDecodeNextMarker(d, s, g) ==
    IF Size(s) = 0 THEN {}
    ELSE IF d.m_mode = "Normal" THEN ReadsOfDecodeTriggerMarker(s, g)
    ELSE IF d.m_state = "ExpectTrigger" \/ d.m_state = "ExpectAlign"
    THEN LET walk == WalkthroughAllDummyMarkers(s, g)
         IN  ReadsOfWalkthrough(s, g) \cup
             (IF walk.err = "" /\ ~walk.exhausted
              THEN ReadsOfDecodeTriggerMarker(walk.stream, g) ELSE {})
    ELSE IF d.m_state = "ExpectGate"
    THEN LET tag == ExtractTag(At(s, 0, g))
         IN  {ReadAt(s, 0)} \cup
             (IF tag = GateStartCst THEN ReadsOfDecodeGateMarker(s, g)
              ELSE IF tag = RecordStop THEN ReadsOfDecodeStopMarker(s)
              ELSE {})
    ELSE {}

\* C11: every indexed read a DecodeNextMarker call performs on the marker
\* stream is at an index i with 0 <= i < stream.Size(), whatever the stream
\* holds and however short it is.
C11_ReadsInBounds ==
    [][last'.op = "Decode" =>
         \A g \in OobValues :
             \A r \in ReadsOfDecodeNextMarker(Dec, stream, g) :
                 0 <= r.index /\ r.index < r.size]_vars

\* ------------------------------------------------ C12: stored sample count
\* The largest value of the integer type T of CeilDiv<T> / AlignUp<T>. The
\* int64_t quantities of the model stay far below it.
NumericMax == 2147483647

\* C++ integer division truncates toward zero (b positive).
TruncDiv(a, b) ==
    IF a >= 0 \/ a % b = 0 THEN a \div b ELSE (a \div b) + 1

\* (variant: the quotient is not rounded up)
CeilDivTruncating(value, divider) ==
    IF divider <= 0
    THEN [err |-> "invalid_argument", val |-> 0]
    ELSE IF value > 0 /\ value > NumericMax - divider + 1
    THEN [err |-> "overflow_error", val |-> 0]
    ELSE [err |-> "", val |-> TruncDiv(value, divider)]

\* CeilDiv<T>(value, divider)
CeilDiv(value, divider) ==
    IF divider <= 0
    THEN [err |-> "invalid_argument", val |-> 0]
    ELSE IF value > 0 /\ value > NumericMax - divider + 1
    THEN [err |-> "overflow_error", val |-> 0]
    ELSE [err |-> "",
          val |-> TruncDiv(value + (IF value > 0 THEN divider - 1 ELSE 0),
                           divider)]

\* AlignUp<T>(value, grain)
AlignUp(value, grain) ==
    IF value > NumericMax - (grain - 1)
    THEN [err |-> "logic_error", val |-> 0]
    ELSE LET c == CeilDiv(value, grain)
         IN  IF c.err # "" THEN c ELSE [err |-> "", val |-> c.val * grain]

\* ProcessingParameters(storageSamples, processingSamples, tsPeriod, preGate,
\* postGate); the timestamp period plays no part in the counts.
ProcessingParameters(storageSamples, processingSamples, preGate, postGate) ==
    [storageBlockSamples |-> storageSamples,
     processingBlockSamples |-> processingSamples,
     preGateSamples |-> preGate, postGateSamples |-> postGate]

Min(a, b) == IF a < b THEN a ELSE b

\* (variant: the pre- and post-gate samples are left out)
GetStoredSampleCountNoPadding(gate, params, recordStop) ==
    LET gateBlocks == gate.m_stopMarker.m_blockIndex
                          - gate.m_startMarker.m_blockIndex
        postGateRecordBlocks == recordStop.m_blockIndex
                                    - gate.m_stopMarker.m_blockIndex
    IN  IF postGateRecordBlocks < 0
        THEN [err |-> "invalid_argument", val |-> 0]
        ELSE AlignUp(gateBlocks * params.processingBlockSamples,
                     params.storageBlockSamples)

\* (variant: a record stop before the gate stop is not rejected)
GetStoredSampleCountAnyStop(gate, params, recordStop) ==
    LET gateBlocks == gate.m_stopMarker.m_blockIndex
                          - gate.m_startMarker.m_blockIndex
        postGateRecordBlocks == recordStop.m_blockIndex
                                    - gate.m_stopMarker.m_blockIndex
        additionalSamples ==
            Min(postGateRecordBlocks * params.processingBlockSamples,
                params.preGateSamples + params.postGateSamples)
    IN  AlignUp(gateBlocks * params.processingBlockSamples + additionalSamples,
                params.storageBlockSamples)

\* GateMarker::GetStoredSampleCount(params, recordStop). A GateMarker has
\* stop block >= start block (its constructor), so the size_t cast of
\* gateBlocks changes nothing.
GetStoredSampleCount(gate, params, recordStop) ==
    LET gateBlocks == gate.m_stopMarker.m_blockIndex
                          - gate.m_startMarker.m_blockIndex
        postGateRecordBlocks == recordStop.m_blockIndex
                                    - gate.m_stopMarker.m_blockIndex
        gateSamples == gateBlocks * params.processingBlockSamples
        postGateRecordSamples ==
            postGateRecordBlocks * params.processingBlockSamples
        additionalSamples ==
            Min(postGateRecordSamples,
                params.preGateSamples + params.postGateSamples)
    IN  IF postGateRecordBlocks < 0
        THEN [err |-> "invalid_argument", val |-> 0]
        ELSE AlignUp(gateSamples + additionalSamples,
                     params.storageBlockSamples)

\* The library functions are exercised one call at a time: pure holds the
\* call, [fn, ...arguments, done, out], and an action applies the function.
MaxBlock == 10

BlockIndices == 1..MaxBlock

\* A start / stop marker as its constructor leaves it for a block index.
StartAt(blockIndex) == [m_blockIndex |-> blockIndex, m_startSampleIndex |-> 0]
StopAt(blockIndex, tag) ==
    [m_blockIndex |-> blockIndex, m_gateEndIndex |-> 0, m_tag |-> tag]

\* Every gate the GateMarker constructor accepts.
Gates ==
    {GateMarker(StartAt(a), StopAt(b, GateStopCst)).val :
        <<a, b>> \in {p \in BlockIndices \X BlockIndices :
                        GateMarker(StartAt(p[1]), StopAt(p[2], GateStopCst)).err = ""}}

\* The parameters of the instrument (16 or 32 samples a block, no pre- or
\* post-gate samples) and others around them.
ParameterSets ==
    {ProcessingParameters(s, p, pre, post) :
        s \in {4, 16}, p \in {1, 16}, pre \in {0, 5}, post \in {0, 3}}

GetStoredSampleCountCalls ==
    {[fn |-> "GetStoredSampleCount", gate |-> gt, params |-> ps,
      recordStop |-> StopAt(r, RecordStop), done |-> FALSE, out |-> NoCall] :
        gt \in Gates, ps \in ParameterSets, r \in BlockIndices}

ApplyGetStoredSampleCount ==
    /\ pure.fn = "GetStoredSampleCount" /\ ~pure.done
    /\ pure' = [pure EXCEPT
                  !.done = TRUE,
                  !.out = GetStoredSampleCount(pure.gate, pure.params,
                                               pure.recordStop)]
    /\ UNCHANGED << decoderVars, batch, fe, main >>

\* The smallest multiple of grain that is not below value.
NextMultiple(value, grain) ==
    CHOOSE m \in value..(value + grain) : m % grain = 0 /\ m - value < grain

\* C12: GetStoredSampleCount(params, recordStop) is AlignUp(gateSamples +
\* additional, storageBlockSamples) with gateSamples = (stop.block -
\* start.block) * processingBlockSamples and additional = min((recordStop.block
\* - stop.block) * processingBlockSamples, preGateSamples + postGateSamples);
\* it fails when recordStop.block < stop.block; the result is a multiple of
\* storageBlockSamples; start 2, stop 5, record stop 10, blocks of 16 samples
\* and no pre- or post-gate samples give 48.
C12_StoredSampleCount ==
    (pure.fn = "GetStoredSampleCount" /\ pure.done) =>
        LET start == pure.gate.m_startMarker.m_blockIndex
            stop == pure.gate.m_stopMarker.m_blockIndex
            rs == pure.recordStop.m_blockIndex
            ps == pure.params
            gateSamples == (stop - start) * ps.processingBlockSamples
            remaining == (rs - stop) * ps.processingBlockSamples
            padding == ps.preGateSamples + ps.postGateSamples
            additional == IF remaining < padding THEN remaining ELSE padding
        IN  /\ (pure.out.err # "") <=> (rs < stop)
            /\ (rs >= stop) =>
                 /\ pure.out.val = NextMultiple(gateSamples + additional,
                                                ps.storageBlockSamples)
                 /\ pure.out.val % ps.storageBlockSamples = 0
            /\ (start = 2 /\ stop = 5 /\ rs = 10
                  /\ ps = ProcessingParameters(16, 16, 0, 0)) =>
                 pure.out = [err |-> "", val |-> 48]

C12_Witness ==
    /\ pure.fn = "GetStoredSampleCount" /\ pure.done
    /\ pure.gate = GateMarker(StartAt(2), StopAt(5, GateStopCst)).val
    /\ pure.recordStop.m_blockIndex = 6
    /\ pure.params = ProcessingParameters(16, 16, 5, 3)
    /\ pure.out = [err |-> "", val |-> 64]

\* ------------------------------------------- C14, C15: ArraySegment alone
\* size_t is SizeBits wide: offset + count is computed modulo 2^SizeBits.
SizeBits == 4

SizeModulus == 2 ^ SizeBits

\* The size_t of the sessions below, wide enough for every sum they make.
WideSizeModulus == 2 ^ 30

\* ArraySegment<T>::ArraySegment(data, offset, count): the members are set,
\* then std::logic_error is thrown when data.size() < offset + count, the sum
\* being a size_t (computed modulo sizeModulus).
ArraySegmentCtor(data, offset, count, sizeModulus) ==
    [err |-> IF Len(data) < (offset + count) % sizeModulus
             THEN "logic_error" ELSE "",
     val |-> ArraySegment(data, offset, count)]

MaxBuf == 3

\* A backing vector of n elements, all different.
Buffer(n) == [i \in 1..n |-> 10 + i]

ArraySegmentCalls ==
    {[fn |-> "ArraySegment", data |-> Buffer(n), offset |-> o, count |-> c,
      done |-> FALSE, out |-> NoCall] :
        n \in 0..MaxBuf, o \in 0..(SizeModulus - 1), c \in 0..(SizeModulus - 1)}

ApplyArraySegment ==
    /\ pure.fn = "ArraySegment" /\ ~pure.done
    /\ pure' = [pure EXCEPT
                  !.done = TRUE,
                  !.out = ArraySegmentCtor(pure.data, pure.offset, pure.count,
                                          SizeModulus)]
    /\ UNCHANGED << decoderVars, batch, fe, main >>

\* PopFront(n) on every segment of a buffer, n up to one more than the buffer
AllPopFrontCalls ==
    {[fn |-> "PopFront", seg |-> ArraySegment(Buffer(n), o, c), n |-> k,
      done |-> FALSE, out |-> NoCall] :
        n \in 0..MaxBuf, o \in 0..MaxBuf, c \in 0..MaxBuf,
        k \in 0..(MaxBuf + 1)}

PopFrontCalls ==
    {call \in AllPopFrontCalls :
        ArraySegmentCtor(call.seg.m_data, call.seg.m_offset, call.seg.m_size,
                         SizeModulus).err = ""}

ApplyPopFront ==
    /\ pure.fn = "PopFront" /\ ~pure.done
    /\ pure' = [pure EXCEPT !.done = TRUE, !.out = PopFront(pure.seg, pure.n)]
    /\ UNCHANGED << decoderVars, batch, fe, main >>

InitLib ==
    /\ DecoderInit /\ m_mode = "ZeroSuppress"
    /\ pure \in GetStoredSampleCountCalls \cup ArraySegmentCalls \cup PopFrontCalls
    /\ batch = NoBatch
    /\ fe = NoFetch
    /\ main = NoMain

NextLib == ApplyGetStoredSampleCount \/ ApplyArraySegment \/ ApplyPopFront

SpecLib == InitLib /\ [][NextLib]_vars

WithinBuffer(s) == s.m_offset + s.m_size <= Len(s.m_data)

\* C14: every ArraySegment that exists has offset + count <= buffer.size(),
\* the sum taken as a mathematical integer: construction fails for every
\* offset and count of the size type whose sum exceeds the buffer length,
\* and PopFront keeps the invariant.
C14_SegmentWithinBuffer ==
    /\ (pure.fn = "ArraySegment" /\ pure.done) =>
         /\ (pure.offset + pure.count > Len(pure.data)) => pure.out.err # ""
         /\ (pure.out.err = "") => WithinBuffer(pure.out.val)
    /\ (pure.fn = "PopFront" /\ pure.done) => WithinBuffer(pure.out.stream)

\* C15: PopFront(n) on a segment of size S fails iff n > S and then leaves
\* offset and size unchanged; otherwise the new size is S - n, the offset
\* advances by n, element i of the new segment is element i + n of the old
\* one for 0 <= i < S - n, and the backing buffer is not modified.
C15_PopFront ==
    (pure.fn = "PopFront" /\ pure.done) =>
        LET S == Size(pure.seg)
            n == pure.n
            r == pure.out
        IN  /\ (r.err # "") <=> (n > S)
            /\ (r.err # "") => r.stream = pure.seg
            /\ (r.err = "") =>
                 /\ Size(r.stream) = S - n
                 /\ r.stream.m_offset = pure.seg.m_offset + n
                 /\ \A i \in 0..(S - n - 1) :
                      At(r.stream, i, 0) = At(pure.seg, i + n, 0)
                 /\ r.stream.m_data = pure.seg.m_data

C15_Witness ==
    /\ pure.fn = "PopFront" /\ pure.done
    /\ pure.seg = ArraySegment(Buffer(3), 1, 2) /\ pure.n = 2
    /\ pure.out = [err |-> "", stream |-> ArraySegment(Buffer(3), 3, 0)]

\* ------------------------------------------------- C13: a batch of records
\* RecordDescriptor::GetStoredSampleCount(params): std::accumulate over the
\* gate list of size + gate.GetStoredSampleCount(params, m_recordStop); an
\* exception of a gate ends the accumulation.
RECURSIVE AccumulateGates(_, _, _, _)
AccumulateGates(gateList, size, params, recordStop) ==
    IF gateList = << >>
    THEN [err |-> "", val |-> size]
    ELSE LET c == GetStoredSampleCount(Head(gateList), params, recordStop)
         IN  IF c.err # "" THEN c
             ELSE AccumulateGates(Tail(gateList), size + c.val, params,
                                  recordStop)

\* (variant: the sum of the gates is aligned, not each gate)
RecordGetStoredSampleCountAlignSum(record, params) ==
    LET unaligned == [params EXCEPT !.storageBlockSamples = 1]
        sum == AccumulateGates(record.m_gateList, 0, unaligned,
                               record.m_recordStop)
    IN  IF sum.err # "" THEN sum
        ELSE AlignUp(sum.val, params.storageBlockSamples)

RecordGetStoredSampleCount(record, params) ==
    AccumulateGates(record.m_gateList, 0, params, record.m_recordStop)

\* GetStoredSampleCountForRecords(recordList, processingParams)
RECURSIVE AccumulateRecords(_, _, _)
AccumulateRecords(recordList, size, params) ==
    IF recordList = << >>
    THEN [err |-> "", val |-> size]
    ELSE LET c == RecordGetStoredSampleCount(Head(recordList), params)
         IN  IF c.err # "" THEN c
             ELSE AccumulateRecords(Tail(recordList), size + c.val, params)

GetStoredSampleCountForRecords(recordList, processingParams) ==
    AccumulateRecords(recordList, 0, processingParams)

\* What AqMD3_StreamFetchDataInt32 hands back: its status and the three
\* output arguments.
DriverResponses(nbrElementsToFetch) ==
    {[status |-> st, actualElements |-> a, remainingElements |-> r,
      firstElement |-> f] :
        st \in {"ok", "error"},
        a \in {x \in {0, nbrElementsToFetch - 1, nbrElementsToFetch,
                      nbrElementsToFetch + 1} : x >= 0},
        r \in {x \in {0, nbrElementsToFetch - 1, nbrElementsToFetch,
                      nbrElementsToFetch + 1} : x >= 0},
        f \in {0, 1}}

\* (variant: a request for no element goes to the driver as any other)
FetchElementsZeroSuppressAlwaysCalls(nbrElementsToFetch, buffer, resp) ==
    IF Len(buffer) < nbrElementsToFetch
    THEN [err |-> "invalid_argument", val |-> ArraySegment(buffer, 0, 0)]
    ELSE IF resp.status # "ok"
    THEN [err |-> "checkApiCall", val |-> ArraySegment(buffer, 0, 0)]
    ELSE IF nbrElementsToFetch # resp.actualElements
    THEN [err |-> "DifferentThanRequested", val |-> ArraySegment(buffer, 0, 0)]
    ELSE ArraySegmentCtor(buffer, resp.firstElement, resp.actualElements,
                          WideSizeModulus)

\* The driver calls that FetchElements makes: none for a request of no
\* element or a buffer too small, one otherwise.
FetchElementsZeroSuppressCalls(nbrElementsToFetch, buffer) ==
    IF nbrElementsToFetch = 0 \/ Len(buffer) < nbrElementsToFetch
    THEN 0 ELSE 1

\* FetchElements of the ZeroSuppress example: one driver call, and an
\* exception unless exactly the requested number of elements came.
FetchElementsZeroSuppress(nbrElementsToFetch, buffer, resp) ==
    IF nbrElementsToFetch = 0
    THEN ArraySegmentCtor(buffer, 0, 0, WideSizeModulus)
    ELSE IF Len(buffer) < nbrElementsToFetch
    THEN [err |-> "invalid_argument", val |-> ArraySegment(buffer, 0, 0)]
    ELSE IF resp.status # "ok"
    THEN [err |-> "checkApiCall", val |-> ArraySegment(buffer, 0, 0)]
    ELSE IF nbrElementsToFetch # resp.actualElements
    THEN [err |-> "DifferentThanRequested", val |-> ArraySegment(buffer, 0, 0)]
    ELSE ArraySegmentCtor(buffer, resp.firstElement, resp.actualElements,
                          WideSizeModulus)

nbrSamplesPerElement == 1

SampleBufferSize == 16

\* FetchBuffer sampleStreamBuffer(sampleBufferSize)
SampleStreamBuffer == [i \in 1..SampleBufferSize |-> 0]

MaxBatch == 2

\* The gates and the records of a batch: one- and two-block gates, records
\* of up to two gates whose record stop lies at block 1 or 2, the trigger an
\* averager one with the record index given.
BatchGates == {GateMarker(StartAt(1), StopAt(1, GateStopCst)).val,
               GateMarker(StartAt(1), StopAt(2, GateStopCst)).val,
               GateMarker(StartAt(2), StopAt(2, GateStopCst)).val}

BatchRecord(recordIndex, gateList, stopBlock) ==
    [m_trigger |-> [DefaultTriggerMarker EXCEPT !.tag = TriggerAverager,
                                                !.recordIndex = recordIndex],
     m_gateList |-> gateList,
     m_recordStop |-> StopAt(stopBlock, RecordStop)]

BatchShapes ==
    {<< gl, r >> : gl \in {<< >>} \cup SeqsUpTo(BatchGates, 2), r \in {1, 2}}

BatchParameterSets ==
    {ProcessingParameters(4, 2, 0, 0), ProcessingParameters(2, 2, 1, 0)}

\* The record lists Take can return: consecutive record indices from 0.
BatchLists ==
    {[i \in 1..Len(shapes) |->
         BatchRecord(i - 1, shapes[i][1], shapes[i][2])] :
        shapes \in SeqsUpTo(BatchShapes, MaxBatch)}

\* The control loop from Take to the end of the "for (auto const& record"
\* loop: batch = [pc, recordDescriptorList, params, sampleArraySegment,
\* fetchedCount, index, expectedRecordIndex, err, driverCalls, consumed];
\* driverCalls counts the AqMD3_StreamFetchDataInt32 calls made, consumed
\* the elements they took from the sample stream.
InitBatch ==
    /\ DecoderInit /\ m_mode = "ZeroSuppress"
    /\ pure = NoCall
    /\ fe = NoFetch
    /\ main = NoMain
    /\ \E list \in BatchLists, ps \in BatchParameterSets :
         batch = [pc |-> "taken", recordDescriptorList |-> list, params |-> ps,
                  sampleArraySegment |-> ArraySegment(SampleStreamBuffer, 0, 0),
                  fetchedCount |-> 0, index |-> 1, expectedRecordIndex |-> 0,
                  err |-> "", driverCalls |-> 0, consumed |-> 0]

\* storedSampleCount, totalSampleElementCount and the FetchElements call
BatchFetchSamples ==
    /\ batch.pc = "taken"
    /\ LET storedSampleCount ==
               GetStoredSampleCountForRecords(batch.recordDescriptorList,
                                              batch.params)
           totalSampleElementCount ==
               TruncDiv(storedSampleCount.val, nbrSamplesPerElement)
       IN  IF storedSampleCount.err # ""
           THEN batch' = [batch EXCEPT !.pc = "thrown",
                                       !.err = storedSampleCount.err]
           ELSE \E resp \in DriverResponses(totalSampleElementCount) :
                  LET seg == FetchElementsZeroSuppress(
                                 totalSampleElementCount, SampleStreamBuffer,
                                 resp)
                      calls == FetchElementsZeroSuppressCalls(
                                   totalSampleElementCount, SampleStreamBuffer)
                      taken == IF calls > 0 /\ resp.status = "ok"
                               THEN resp.actualElements ELSE 0
                      b == [batch EXCEPT !.driverCalls = @ + calls,
                                         !.consumed = @ + taken]
                  IN  IF seg.err # ""
                      THEN batch' = [b EXCEPT !.pc = "thrown",
                                              !.err = seg.err]
                      ELSE batch' = [b EXCEPT
                                       !.pc = "records",
                                       !.sampleArraySegment = seg.val,
                                       !.fetchedCount = Size(seg.val)]
    /\ UNCHANGED << decoderVars, pure, fe, main >>

\* One turn of the loop over the record descriptors: the record index and
\* tag checks, then PopFront of the record's packed elements.
BatchProcessRecord ==
    /\ batch.pc = "records"
    /\ batch.index <= Len(batch.recordDescriptorList)
    /\ LET record == batch.recordDescriptorList[batch.index]
           count == RecordGetStoredSampleCount(record, batch.params)
           nbrPackedRecordElements == TruncDiv(count.val, nbrSamplesPerElement)
           popped == PopFront(batch.sampleArraySegment, nbrPackedRecordElements)
           err == IF (batch.expectedRecordIndex % Pow2_24)
                        # record.m_trigger.recordIndex
                  THEN "UnexpectedRecordIndex"
                  ELSE IF record.m_trigger.tag # TriggerAverager
                  THEN "UnexpectedTriggerTag"
                  ELSE IF count.err # "" THEN count.err
                  ELSE popped.err
       IN  IF err # ""
           THEN batch' = [batch EXCEPT !.pc = "thrown", !.err = err]
           ELSE batch' = [batch EXCEPT
                            !.sampleArraySegment = popped.stream,
                            !.index = @ + 1,
                            !.expectedRecordIndex = @ + 1,
                            !.pc = IF batch.index =
                                        Len(batch.recordDescriptorList)
                                   THEN "done" ELSE "records"]
    /\ UNCHANGED << decoderVars, pure, fe, main >>

NextBatch == BatchFetchSamples \/ BatchProcessRecord

SpecBatch == InitBatch /\ [][NextBatch]_vars

\* The count of a gate and of a record as the format defines them.
GateCountOf(gate, params, recordStop) ==
    LET g == (gate.m_stopMarker.m_blockIndex - gate.m_startMarker.m_blockIndex)
                 * params.processingBlockSamples
        rest == (recordStop.m_blockIndex - gate.m_stopMarker.m_blockIndex)
                    * params.processingBlockSamples
        pad == params.preGateSamples + params.postGateSamples
    IN  NextMultiple(g + (IF rest < pad THEN rest ELSE pad),
                     params.storageBlockSamples)

RECURSIVE SumOver(_, _)
SumOver(f, n) == IF n = 0 THEN 0 ELSE f[n] + SumOver(f, n - 1)

RecordCountOf(record, params) ==
    SumOver([k \in 1..Len(record.m_gateList) |->
                GateCountOf(record.m_gateList[k], params, record.m_recordStop)],
            Len(record.m_gateList))

Countable(record) ==
    \A k \in 1..Len(record.m_gateList) :
        record.m_gateList[k].m_stopMarker.m_blockIndex
            <= record.m_recordStop.m_blockIndex

\* C13: the stored-sample count of a record is the sum over its gates of
\* each gate's count, each aligned to the storage block on its own;
\* GetStoredSampleCountForRecords is the sum of the per-record counts; so
\* the elements fetched for a batch are the sum of the per-record PopFront
\* amounts: no PopFront fails and the sample segment is empty after the last
\* record of the batch.
C13_BatchSamples ==
    (batch.pc # "None") =>
        LET list == batch.recordDescriptorList
            ps == batch.params
            perRecord == [i \in 1..Len(list) |-> RecordCountOf(list[i], ps)]
            allCountable == \A i \in 1..Len(list) : Countable(list[i])
        IN  /\ \A i \in 1..Len(list) :
                 Countable(list[i]) =>
                     RecordGetStoredSampleCount(list[i], ps)
                         = [err |-> "", val |-> perRecord[i]]
            /\ allCountable =>
                 GetStoredSampleCountForRecords(list, ps)
                     = [err |-> "", val |-> SumOver(perRecord, Len(list))]
            /\ batch.err # "PopFront"
            /\ (batch.pc \in {"records", "done"}) =>
                 /\ batch.fetchedCount = SumOver(perRecord, Len(list))
                 /\ Size(batch.sampleArraySegment)
                        = batch.fetchedCount
                            - SumOver(perRecord, batch.index - 1)
            /\ (batch.pc = "done") => Size(batch.sampleArraySegment) = 0

C13_Witness ==
    /\ batch.pc = "done"
    /\ Len(batch.recordDescriptorList) = 2
    /\ batch.params = ProcessingParameters(4, 2, 0, 0)
    /\ Len(batch.recordDescriptorList[1].m_gateList) = 2
    /\ RecordCountOf(batch.recordDescriptorList[1], batch.params) = 8
    /\ batch.fetchedCount = 12
    /\ batch.sampleArraySegment.m_offset = 13

\* ------------------------------------------------- C16: gate block indices
\* Gate markers with a zero start block, a zero stop block, a stop block
\* before the start block, and a record stop at block zero.
GateZeroStart == Chunk("gate", GateStartCst, 0, 0, 0, GateStopCst, 2, 0)
GateZeroStop == Chunk("gate", GateStartCst, 1, 0, 0, GateStopCst, 0, 0)
GateWrap == Chunk("gate", GateStartCst, 2, 0, 0, GateStopCst, 1, 0)
StopRSZero == Chunk("stop", 0, 0, 0, 0, RecordStop, 0, 1)

GateAlphabet == {TrigN, GateCst, GateRS, GateZeroStart, GateZeroStop,
                 GateWrap, StopRSZero, StopRS}

MaxGateChunks == 3

\* A ZeroSuppress session whose gate markers carry any block indices.
FetchGates == Fetch(GateAlphabet, MaxGateChunks)

NextGates == FetchGates \/ Decode \/ DoTake \/ DoPop

SpecGates == InitWF /\ [][NextGates]_vars

GateListOk(record) ==
    \A k \in 1..Len(record.m_gateList) :
        /\ 1 <= record.m_gateList[k].m_startMarker.m_blockIndex
        /\ record.m_gateList[k].m_startMarker.m_blockIndex
               <= record.m_gateList[k].m_stopMarker.m_blockIndex

\* The block index a 64-bit marker at elements i, i + 1 of the stream holds.
BlockIndexAt(i) == ExtractPosition(At(stream, i, 0), At(stream, i + 1, 0))

\* The stream begins with a whole gate marker, or a whole record stop, whose
\* block indices are malformed.
MalformedGateAhead ==
    \/ /\ Size(stream) >= 2 * NbrGateMarkerElements
       /\ ExtractTag(At(stream, 0, 0)) = GateStartCst
       /\ \/ BlockIndexAt(0) < 1
          \/ BlockIndexAt(2) < 1
          \/ BlockIndexAt(2) < BlockIndexAt(0)
    \/ /\ Size(stream) >= NbrGateMarkerElements
       /\ ExtractTag(At(stream, 0, 0)) = RecordStop
       /\ BlockIndexAt(0) < 1

\* C16: every gate marker held by a record, in progress or queued, has
\* 1 <= start.blockIndex <= stop.blockIndex; decoding a gate start with block
\* index 0, a stop with block index 0, or a gate whose stop block index is
\* smaller than its start block index makes the call fail, and no gate is
\* added to the in-progress record.
C16_GateBlockIndices ==
    /\ [](/\ GateListOk(m_currentRecord)
          /\ \A i \in 1..Len(m_recordQueue) : GateListOk(m_recordQueue[i]))
    /\ [][ (/\ last'.op = "Decode" /\ ZeroSuppressMode
            /\ m_state = "ExpectGate" /\ MalformedGateAhead)
           => /\ last'.err # ""
              /\ m_currentRecord'.m_gateList = m_currentRecord.m_gateList
              /\ UNCHANGED << m_recordQueue, m_state >>
         ]_vars

\* After a well-formed gate, the call on a gate whose stop block lies before
\* its start block failed and the record still has the one gate.
C16_Witness ==
    /\ fetched = << TrigN, GateCst, GateWrap >>
    /\ last.op = "Decode" /\ last.err = "GateOrder"
    /\ Len(m_currentRecord.m_gateList) = 1
    /\ GateListOk(m_currentRecord)

\* ------------------------------------------------ C17: queued records
\* C17: a record descriptor is immutable once queued: no later
\* DecodeNextMarker call (starting the next record, adding gates to it,
\* failing) and no later fetch into the marker buffer changes the trigger,
\* the gate list or the record stop of a queued record.
C17_QueuedRecordsImmutable ==
    [][ (last'.op \in {"Decode", "Fetch"})
        => /\ Len(m_recordQueue') >= Len(m_recordQueue)
           /\ \A i \in 1..Len(m_recordQueue) :
                /\ m_recordQueue'[i].m_trigger = m_recordQueue[i].m_trigger
                /\ m_recordQueue'[i].m_gateList = m_recordQueue[i].m_gateList
                /\ m_recordQueue'[i].m_recordStop
                       = m_recordQueue[i].m_recordStop
      ]_vars

\* A record was queued from a first stream; the buffer was filled again and
\* the next record has been started from it, the queued one still as it was.
C17_Witness ==
    /\ ZeroSuppressMode
    /\ emitted = << TrigN, StopRS, TrigA >>
    /\ fetched = << TrigA >>
    /\ m_recordQueue = << ExpectedRecord(<< TrigN, StopRS >>) >>
    /\ last.op = "Decode" /\ last.err = ""
    /\ m_state = "ExpectGate"
    /\ m_currentRecord.m_trigger = TriggerOf(TrigA)

\* -------------------------------------------- C18, C19, C20: FetchElements
nbrWaitForSamplesAttempts == 3

NoSegment(buffer) == ArraySegment(buffer, 0, 0)

\* (variant: the driver is called whatever the size of the buffer)
FetchElementsEntryAnyBuffer(nbrElementsToFetch, buffer) ==
    IF nbrElementsToFetch = 0
    THEN [pc |-> "returned",
          out |-> ArraySegmentCtor(buffer, 0, 0, WideSizeModulus)]
    ELSE [pc |-> "attempt", out |-> [err |-> "", val |-> NoSegment(buffer)]]

\* FetchElements up to its first driver call: nothing to fetch, or a buffer
\* smaller than the request.
FetchElementsEntry(nbrElementsToFetch, buffer) ==
    IF nbrElementsToFetch = 0
    THEN [pc |-> "returned",
          out |-> ArraySegmentCtor(buffer, 0, 0, WideSizeModulus)]
    ELSE IF Len(buffer) < nbrElementsToFetch
    THEN [pc |-> "thrown",
          out |-> [err |-> "invalid_argument", val |-> NoSegment(buffer)]]
    ELSE [pc |-> "attempt", out |-> [err |-> "", val |-> NoSegment(buffer)]]

\* (variant: whatever was delivered is returned)
FetchElementsTurnPartial(nbrElementsToFetch, buffer, nbrAttempts, resp) ==
    IF resp.status # "ok"
    THEN [pc |-> "thrown", nbrAttempts |-> nbrAttempts,
          out |-> [err |-> "checkApiCall", val |-> NoSegment(buffer)]]
    ELSE IF resp.actualElements > 0
    THEN LET seg == ArraySegmentCtor(buffer, resp.firstElement,
                                     resp.actualElements, WideSizeModulus)
         IN  [pc |-> IF seg.err = "" THEN "returned" ELSE "thrown",
              nbrAttempts |-> nbrAttempts, out |-> seg]
    ELSE [pc |-> "thrown", nbrAttempts |-> nbrAttempts,
          out |-> [err |-> "DifferentThanRequested", val |-> NoSegment(buffer)]]

\* (variant: an attempt that delivered nothing is tried again whatever the
\* number of remaining elements)
FetchElementsTurnRetryEmpty(nbrElementsToFetch, buffer, nbrAttempts, resp) ==
    IF resp.status # "ok"
    THEN [pc |-> "thrown", nbrAttempts |-> nbrAttempts,
          out |-> [err |-> "checkApiCall", val |-> NoSegment(buffer)]]
    ELSE IF nbrElementsToFetch = resp.actualElements
    THEN LET seg == ArraySegmentCtor(buffer, resp.firstElement,
                                     resp.actualElements, WideSizeModulus)
         IN  [pc |-> IF seg.err = "" THEN "returned" ELSE "thrown",
              nbrAttempts |-> nbrAttempts, out |-> seg]
    ELSE IF resp.actualElements = 0
    THEN IF nbrAttempts + 1 < nbrWaitForSamplesAttempts
         THEN [pc |-> "attempt", nbrAttempts |-> nbrAttempts + 1,
               out |-> [err |-> "", val |-> NoSegment(buffer)]]
         ELSE [pc |-> "thrown", nbrAttempts |-> nbrAttempts + 1,
               out |-> [err |-> "FailedAfterAttempts",
                        val |-> NoSegment(buffer)]]
    ELSE [pc |-> "thrown", nbrAttempts |-> nbrAttempts,
          out |-> [err |-> "DifferentThanRequested", val |-> NoSegment(buffer)]]

\* (variant: the loop test is nbrAttempts <= nbrWaitForSamplesAttempts)
FetchElementsTurnOneMore(nbrElementsToFetch, buffer, nbrAttempts, resp) ==
    IF resp.status # "ok"
    THEN [pc |-> "thrown", nbrAttempts |-> nbrAttempts,
          out |-> [err |-> "checkApiCall", val |-> NoSegment(buffer)]]
    ELSE IF nbrElementsToFetch = resp.actualElements
    THEN LET seg == ArraySegmentCtor(buffer, resp.firstElement,
                                     resp.actualElements, WideSizeModulus)
         IN  [pc |-> IF seg.err = "" THEN "returned" ELSE "thrown",
              nbrAttempts |-> nbrAttempts, out |-> seg]
    ELSE IF resp.actualElements = 0
            /\ resp.remainingElements < nbrElementsToFetch
    THEN IF nbrAttempts + 1 <= nbrWaitForSamplesAttempts
         THEN [pc |-> "attempt", nbrAttempts |-> nbrAttempts + 1,
               out |-> [err |-> "", val |-> NoSegment(buffer)]]
         ELSE [pc |-> "thrown", nbrAttempts |-> nbrAttempts + 1,
               out |-> [err |-> "FailedAfterAttempts",
                        val |-> NoSegment(buffer)]]
    ELSE [pc |-> "thrown", nbrAttempts |-> nbrAttempts,
          out |-> [err |-> "DifferentThanRequested", val |-> NoSegment(buffer)]]

\* One turn of the for loop of FetchElements (streamingExample.cpp), given
\* what the driver call handed back: return, throw, or "continue", which
\* increments nbrAttempts and, the loop test failing, throws the "failed
\* after N attempts" error.
FetchElementsTurn(nbrElementsToFetch, buffer, nbrAttempts, resp) ==
    IF resp.status # "ok"
    THEN [pc |-> "thrown", nbrAttempts |-> nbrAttempts,
          out |-> [err |-> "checkApiCall", val |-> NoSegment(buffer)]]
    ELSE IF nbrElementsToFetch = resp.actualElements
    THEN LET seg == ArraySegmentCtor(buffer, resp.firstElement,
                                     resp.actualElements, WideSizeModulus)
         IN  [pc |-> IF seg.err = "" THEN "returned" ELSE "thrown",
              nbrAttempts |-> nbrAttempts, out |-> seg]
    ELSE IF resp.actualElements = 0
            /\ resp.remainingElements < nbrElementsToFetch
    THEN IF nbrAttempts + 1 < nbrWaitForSamplesAttempts
         THEN [pc |-> "attempt", nbrAttempts |-> nbrAttempts + 1,
               out |-> [err |-> "", val |-> NoSegment(buffer)]]
         ELSE [pc |-> "thrown", nbrAttempts |-> nbrAttempts + 1,
               out |-> [err |-> "FailedAfterAttempts",
                        val |-> NoSegment(buffer)]]
    ELSE [pc |-> "thrown", nbrAttempts |-> nbrAttempts,
          out |-> [err |-> "DifferentThanRequested", val |-> NoSegment(buffer)]]

MaxFetch == 3

\* FetchBuffer: one too small for the largest request, one with room to spare
FetchBuffers == {[i \in 1..n |-> 0] : n \in {MaxFetch - 1, MaxFetch + 1}}

NoResponse == [status |-> "none", actualElements |-> 0,
               remainingElements |-> 0, firstElement |-> 0]

\* A call of FetchElements: fe = [pc, which, nbrElementsToFetch, buffer,
\* nbrAttempts, calls, resp, out]; which tells the FetchElements with the
\* retry loop ("Retry") from the one of the ZeroSuppress example ("Once");
\* calls counts the driver calls made, resp is what the last one handed back.
InitFetch ==
    /\ DecoderInit /\ m_mode = "Normal"
    /\ pure = NoCall
    /\ batch = NoBatch
    /\ main = NoMain
    /\ \E w \in {"Retry", "Once"}, n \in 0..MaxFetch, b \in FetchBuffers :
         fe = [pc |-> "call", which |-> w, nbrElementsToFetch |-> n,
               buffer |-> b, nbrAttempts |-> 0, calls |-> 0,
               resp |-> NoResponse,
               out |-> [err |-> "", val |-> NoSegment(b)]]

FetchElementsEnter ==
    /\ fe.pc = "call"
    /\ LET e == FetchElementsEntry(fe.nbrElementsToFetch, fe.buffer)
       IN  fe' = [fe EXCEPT !.pc = e.pc, !.out = e.out]
    /\ UNCHANGED << decoderVars, pure, batch, main >>

\* A driver call and what FetchElements makes of its answer.
FetchElementsAttempt ==
    /\ fe.pc = "attempt"
    /\ \E resp \in DriverResponses(fe.nbrElementsToFetch) :
         IF fe.which = "Retry"
         THEN LET t == FetchElementsTurn(fe.nbrElementsToFetch, fe.buffer,
                                         fe.nbrAttempts, resp)
              IN  fe' = [fe EXCEPT !.pc = t.pc, !.nbrAttempts = t.nbrAttempts,
                                   !.calls = @ + 1, !.resp = resp,
                                   !.out = t.out]
         ELSE LET r == FetchElementsZeroSuppress(fe.nbrElementsToFetch,
                                                 fe.buffer, resp)
              IN  fe' = [fe EXCEPT
                           !.pc = IF r.err = "" THEN "returned" ELSE "thrown",
                           !.calls = @ + 1, !.resp = resp, !.out = r]
    /\ UNCHANGED << decoderVars, pure, batch, main >>

NextFetch == FetchElementsEnter \/ FetchElementsAttempt

SpecFetch == InitFetch /\ [][NextFetch]_vars

\* FetchElements runs on: the driver call returns and the thread goes on.
SpecFetchLive == SpecFetch /\ WF_vars(NextFetch)

FetchOver == fe.pc \in {"returned", "thrown"}

\* C18: FetchElements(n) with n > 0 either returns a segment of exactly n
\* elements or fails with an error, whatever the driver hands back; it never
\* returns a segment of another size.
C18_ExactlyOrError ==
    (FetchOver /\ fe.nbrElementsToFetch > 0) =>
        /\ (fe.pc = "returned") =>
             /\ fe.out.err = ""
             /\ Size(fe.out.val) = fe.nbrElementsToFetch
        /\ (fe.pc = "thrown") => fe.out.err # ""

\* Returned at the second attempt, the elements beginning at index 1.
C18_Witness ==
    /\ fe.pc = "returned" /\ fe.which = "Retry"
    /\ fe.nbrElementsToFetch = MaxFetch /\ fe.calls = 2
    /\ fe.out.val.m_offset = 1 /\ Size(fe.out.val) = MaxFetch

\* An attempt of the FetchElements with the retry loop that the driver
\* answered without error but not with the requested number of elements.
FailedAttempt ==
    /\ fe.pc = "attempt" /\ fe.which = "Retry" /\ fe'.calls = fe.calls + 1
    /\ fe'.resp.status = "ok"
    /\ fe'.resp.actualElements # fe.nbrElementsToFetch

Retried ==
    /\ fe'.nbrAttempts = fe.nbrAttempts + 1
    /\ \/ fe'.pc = "attempt"
       \/ fe'.pc = "thrown" /\ fe'.out.err = "FailedAfterAttempts"

HardError == fe'.pc = "thrown" /\ fe'.out.err = "DifferentThanRequested"

\* C19 (as stated): a fetch attempt that fails with fewer remaining elements
\* in the stream than requested is a hard error, reported at once, and not a
\* retry condition.
C19_ShortRemainingIsHardError ==
    [][ (FailedAttempt
           /\ fe'.resp.remainingElements < fe.nbrElementsToFetch)
        => (HardError /\ ~Retried) ]_vars

\* C19 (amended): a failed attempt is tried again exactly when it delivered
\* nothing while fewer elements remain than requested; any other failed
\* attempt (some elements delivered, or nothing delivered although the
\* requested number remains) is a hard error reported at once.
C19_RetryWhenNothingDelivered ==
    [][ FailedAttempt
        => IF fe'.resp.actualElements = 0
              /\ fe'.resp.remainingElements < fe.nbrElementsToFetch
           THEN Retried /\ ~HardError
           ELSE HardError /\ ~Retried ]_vars

\* An attempt delivered nothing with nothing remaining and a second attempt
\* is under way.
C19_Witness ==
    /\ fe.pc = "attempt" /\ fe.which = "Retry" /\ fe.nbrAttempts = 1
    /\ fe.resp.status = "ok" /\ fe.resp.actualElements = 0
    /\ fe.resp.remainingElements = 0
    /\ fe.nbrElementsToFetch = MaxFetch

\* C20: FetchElements always terminates: it makes at most
\* nbrWaitForSamplesAttempts driver calls, and when every attempt reports
\* data not ready it stops and fails with the "failed after N attempts"
\* error.
C20_FetchElementsTerminates ==
    /\ [](fe.calls <= nbrWaitForSamplesAttempts)
    /\ []((fe.nbrAttempts = nbrWaitForSamplesAttempts) =>
            (fe.pc = "thrown" /\ fe.out.err = "FailedAfterAttempts"))
    /\ <>FetchOver

C20_Witness ==
    /\ fe.pc = "thrown" /\ fe.out.err = "FailedAfterAttempts"
    /\ fe.calls = nbrWaitForSamplesAttempts
    /\ fe.nbrAttempts = nbrWaitForSamplesAttempts

\* ------------------------------------- C21, C28: the fetches and the stream
\* AqMD3_StreamFetchDataInt32 on a stream that holds `available` elements:
\* the call fails, or it delivers the whole request, or it delivers nothing
\* and reports what the stream holds (the request exceeds it, or the data is
\* not ready).
StreamFetchData(available, nbrElementsToFetch) ==
    {[status |-> "error", actualElements |-> 0, remainingElements |-> 0,
      firstElement |-> 0],
     [status |-> "ok", actualElements |-> 0, remainingElements |-> available,
      firstElement |-> 0]}
    \cup {[status |-> "ok", actualElements |-> nbrElementsToFetch,
           remainingElements |-> available - nbrElementsToFetch,
           firstElement |-> f] :
            f \in {x \in {0, 1} : /\ 0 < nbrElementsToFetch
                                  /\ nbrElementsToFetch <= available}}

\* (variant: the second call asks again for the first request)
SecondRequestSame(nbrElementsToFetch, remainingElements) == nbrElementsToFetch

\* What the second driver call of FetchAvailableElements asks for.
SecondRequest(nbrElementsToFetch, remainingElements) == remainingElements

\* FetchAvailableElements from its entry to the return of its first driver
\* call: [pc, calls, out]; pc = "second" when a second call follows.
FetchAvailableElementsFirst(nbrElementsToFetch, buffer, resp) ==
    IF Len(buffer) < nbrElementsToFetch
    THEN [pc |-> "thrown", calls |-> 0,
          out |-> [err |-> "invalid_argument", val |-> NoSegment(buffer)]]
    ELSE IF resp.status # "ok"
    THEN [pc |-> "thrown", calls |-> 1,
          out |-> [err |-> "checkApiCall", val |-> NoSegment(buffer)]]
    ELSE IF resp.actualElements = 0 /\ resp.remainingElements > 0
    THEN IF nbrElementsToFetch <= resp.remainingElements
         THEN [pc |-> "thrown", calls |-> 1,
               out |-> [err |-> "FirstFetchFailed",
                        val |-> NoSegment(buffer)]]
         ELSE [pc |-> "second", calls |-> 1,
               out |-> [err |-> "", val |-> NoSegment(buffer)]]
    ELSE LET seg == ArraySegmentCtor(buffer, resp.firstElement,
                                     resp.actualElements, WideSizeModulus)
         IN  [pc |-> IF seg.err = "" THEN "returned" ELSE "thrown",
              calls |-> 1, out |-> seg]

\* FetchAvailableElements from the return of its second driver call.
FetchAvailableElementsSecond(buffer, resp) ==
    IF resp.status # "ok"
    THEN [pc |-> "thrown",
          out |-> [err |-> "checkApiCall", val |-> NoSegment(buffer)]]
    ELSE LET seg == ArraySegmentCtor(buffer, resp.firstElement,
                                     resp.actualElements, WideSizeModulus)
         IN  [pc |-> IF seg.err = "" THEN "returned" ELSE "thrown",
              out |-> seg]

MaxAvailable == 4

MaxAdded == 2

\* A call of FetchAvailableElements or of FetchElements on a stream:
\* fe = [pc, fn, nbrElementsToFetch, buffer, nbrAttempts, calls, requests,
\* resps, available, consumed, added, out]; requests and resps list what
\* each driver call asked for and handed back, available is what the stream
\* holds, consumed what the driver delivered, added what the firmware put in
\* the stream during the call.
InitDriver ==
    /\ DecoderInit /\ m_mode = "Normal"
    /\ pure = NoCall
    /\ batch = NoBatch
    /\ main = NoMain
    /\ \E f \in {"FetchAvailableElements", "FetchElements"},
          n \in 0..MaxFetch, b \in FetchBuffers, a \in 0..MaxAvailable :
         fe = [pc |-> "call", fn |-> f, nbrElementsToFetch |-> n,
               buffer |-> b, nbrAttempts |-> 0, calls |-> 0,
               requests |-> << >>, resps |-> << >>, available |-> a,
               consumed |-> 0, added |-> 0,
               out |-> [err |-> "", val |-> NoSegment(b)]]

\* The driver call made, answered by resp
Called(request, resp) ==
    [fe EXCEPT !.requests = Append(@, request), !.resps = Append(@, resp),
               !.calls = @ + 1,
               !.available = IF resp.status = "ok"
                             THEN @ - resp.actualElements ELSE @,
               !.consumed = IF resp.status = "ok"
                            THEN @ + resp.actualElements ELSE @]

FetchAvailableCall1 ==
    /\ fe.pc = "call" /\ fe.fn = "FetchAvailableElements"
    /\ \E resp \in StreamFetchData(fe.available, fe.nbrElementsToFetch) :
         LET r == FetchAvailableElementsFirst(fe.nbrElementsToFetch,
                                              fe.buffer, resp)
         IN  IF r.calls = 0
             THEN fe' = [fe EXCEPT !.pc = r.pc, !.out = r.out]
             ELSE fe' = [Called(fe.nbrElementsToFetch, resp)
                           EXCEPT !.pc = r.pc, !.out = r.out]
    /\ UNCHANGED << decoderVars, pure, batch, main >>

FetchAvailableCall2 ==
    /\ fe.pc = "second" /\ fe.fn = "FetchAvailableElements"
    /\ LET request == SecondRequest(fe.nbrElementsToFetch,
                                    fe.resps[1].remainingElements)
       IN  \E resp \in StreamFetchData(fe.available, request) :
             LET r == FetchAvailableElementsSecond(fe.buffer, resp)
             IN  fe' = [Called(request, resp)
                          EXCEPT !.pc = r.pc, !.out = r.out]
    /\ UNCHANGED << decoderVars, pure, batch, main >>

FetchElementsStart ==
    /\ fe.pc = "call" /\ fe.fn = "FetchElements"
    /\ LET e == FetchElementsEntry(fe.nbrElementsToFetch, fe.buffer)
       IN  fe' = [fe EXCEPT !.pc = e.pc, !.out = e.out]
    /\ UNCHANGED << decoderVars, pure, batch, main >>

FetchElementsCall ==
    /\ fe.pc = "attempt" /\ fe.fn = "FetchElements"
    /\ \E resp \in StreamFetchData(fe.available, fe.nbrElementsToFetch) :
         LET t == FetchElementsTurn(fe.nbrElementsToFetch, fe.buffer,
                                    fe.nbrAttempts, resp)
         IN  fe' = [Called(fe.nbrElementsToFetch, resp)
                      EXCEPT !.pc = t.pc, !.nbrAttempts = t.nbrAttempts,
                             !.out = t.out]
    /\ UNCHANGED << decoderVars, pure, batch, main >>

\* The acquisition runs on while the program fetches: the firmware puts
\* elements in the stream between two driver calls.
FirmwareAdds ==
    /\ fe.pc \in {"second", "attempt"}
    /\ fe.added < MaxAdded
    /\ \E k \in 1..(MaxAdded - fe.added) :
         fe' = [fe EXCEPT !.available = @ + k, !.added = @ + k]
    /\ UNCHANGED << decoderVars, pure, batch, main >>

NextDriver ==
    \/ FetchAvailableCall1
    \/ FetchAvailableCall2
    \/ FetchElementsStart
    \/ FetchElementsCall
    \/ FirmwareAdds

SpecDriver == InitDriver /\ [][NextDriver]_vars

FetchAvailableOver ==
    fe.pc \in {"returned", "thrown"} /\ fe.fn = "FetchAvailableElements"

\* C21: FetchAvailableElements(max) returns a segment of at most max
\* elements; it makes a second driver call exactly when the first delivered
\* nothing and reported 0 < r < max remaining, and that call asks for r; it
\* fails with the "first fetch failed" logic error exactly when the first
\* call delivered nothing and reported r >= max, r > 0; the returned segment
\* is empty only if the last driver call delivered nothing; all of it
\* whatever the firmware adds to the stream between the two calls.
C21_FetchAvailableBounded ==
    (fe.pc # "None" /\ fe.fn = "FetchAvailableElements") =>
      LET n == fe.nbrElementsToFetch
          nothing == /\ fe.resps[1].status = "ok"
                     /\ fe.resps[1].actualElements = 0
                     /\ fe.resps[1].remainingElements > 0
      IN  /\ fe.pc = "returned" =>
                /\ Size(fe.out.val) <= n
                /\ fe.out.err = ""
                /\ fe.calls >= 1
                /\ Size(fe.out.val) = fe.resps[fe.calls].actualElements
                /\ Size(fe.out.val) = 0 =>
                       fe.resps[fe.calls].actualElements = 0
          /\ fe.calls <= 2
          /\ (fe.calls = 2 \/ fe.pc = "second") =>
                /\ nothing
                /\ fe.resps[1].remainingElements < n
          /\ fe.calls = 2 =>
                /\ fe.requests[2] = fe.resps[1].remainingElements
                /\ fe.requests[2] < n
          /\ FetchAvailableOver /\ fe.calls = 1 /\ nothing =>
                /\ fe.pc = "thrown" /\ fe.out.err = "FirstFetchFailed"
                /\ fe.resps[1].remainingElements >= n
          /\ fe.out.err = "FirstFetchFailed" =>
                /\ fe.calls = 1 /\ nothing
                /\ fe.resps[1].remainingElements >= n

\* the firmware added elements between the two calls and the second call
\* delivered what the first one reported
C21_Witness ==
    /\ fe.pc = "returned" /\ fe.fn = "FetchAvailableElements"
    /\ fe.calls = 2 /\ fe.added > 0
    /\ fe.nbrElementsToFetch = 3
    /\ fe.requests = << 3, 2 >>
    /\ Size(fe.out.val) = 2
    /\ fe.available > 0

\* C28: FetchAvailableElements and FetchElements asked for more elements
\* than the buffer holds (one at least, for FetchElements) throw
\* invalid_argument with no driver call made and nothing consumed from the
\* stream.
C28_SmallBufferFailsFirst ==
    (/\ fe.pc \in {"returned", "thrown", "second", "attempt"}
     /\ Len(fe.buffer) < fe.nbrElementsToFetch) =>
        /\ fe.pc = "thrown"
        /\ fe.out.err = "invalid_argument"
        /\ fe.calls = 0 /\ fe.requests = << >>
        /\ fe.consumed = 0
        /\ fe.added = 0

C28_Witness ==
    /\ fe.pc = "thrown" /\ fe.fn = "FetchElements"
    /\ fe.out.err = "invalid_argument"
    /\ fe.nbrElementsToFetch = MaxFetch /\ Len(fe.buffer) = MaxFetch - 1
    /\ fe.available >= MaxFetch
    /\ fe.calls = 0 /\ fe.consumed = 0

\* ------------------------------------------------- C22: main and the session
\* The example programs: streamingExample.cpp and the ZeroSuppress example.
Programs == {"streamingExample", "StreamingAveragerZeroSuppress"}

\* What can be thrown inside the streaming loop: a decoding error, a record
\* check that fails, a fetch that fails or comes short, a queue underflow.
FatalErrors == {"protocol", "invariant", "fetch", "underflow"}

MaxTurns == 3

\* main = [pc, program, session, acquiring, turns, raised, inLoop,
\* abortCalls, closeCalls, exit]: session is the driver's session ("VI_NULL"
\* before AqMD3_InitWithOptions succeeds), acquiring tells an acquisition
\* initiated and not aborted, raised is the exception caught, inLoop tells
\* it was thrown inside the streaming loop, exit is the value main returned.
InitMain ==
    /\ DecoderInit /\ m_mode = "Normal"
    /\ pure = NoCall
    /\ batch = NoBatch
    /\ fe = NoFetch
    /\ \E p \in Programs :
         main = [pc |-> "start", program |-> p, session |-> "VI_NULL",
                 acquiring |-> FALSE, turns |-> 0, raised |-> "",
                 inLoop |-> FALSE, abortCalls |-> 0, closeCalls |-> 0,
                 exit |-> -1]

\* AqMD3_Abort and AqMD3_close on the session: a call that fails leaves the
\* session as it was.
Abort(m, ok) ==
    [m EXCEPT !.abortCalls = @ + 1,
              !.acquiring = IF ok THEN FALSE ELSE @]

Close(m, ok) ==
    [m EXCEPT !.closeCalls = @ + 1,
              !.acquiring = IF ok THEN FALSE ELSE @,
              !.session = IF ok THEN "closed" ELSE @]

Throw(m, what) == [m EXCEPT !.pc = "catch", !.raised = what]

Return(m, value) == [m EXCEPT !.pc = "exited", !.exit = value]

\* The catch block of main: streamingExample.cpp reports the error and
\* returns; the ZeroSuppress example asks the driver whether the acquisition
\* is idle, aborts it if it is not, and closes the session, each call
\* reported when it fails.
CatchBlock(m, isIdleOk, abortOk, closeOk) ==
    IF m.program = "streamingExample"
    THEN Return(m, 1)
    ELSE IF m.session # "VI_NULL"
    THEN LET idle == ~m.acquiring
             a == IF isIdleOk /\ ~idle THEN Abort(m, abortOk) ELSE m
         IN  Return(Close(a, closeOk), 1)
    ELSE Return(m, 1)

MainInitWithOptions ==
    /\ main.pc = "start"
    /\ \E ok \in BOOLEAN :
         main' = IF ok THEN [main EXCEPT !.pc = "configure",
                                         !.session = "open"]
                 ELSE Throw(main, "driver")
    /\ UNCHANGED << decoderVars, pure, batch, fe >>

\* From the attribute reads to AqMD3_InitiateAcquisition: an instrument that
\* cannot stream is closed and main returns 1; a driver call that fails
\* throws.
MainConfigure ==
    /\ main.pc = "configure"
    /\ \E outcome \in {"unsupported", "error", "ok"}, closeOk \in BOOLEAN :
         main' = CASE outcome = "unsupported" -> Return(Close(main, closeOk), 1)
                   [] outcome = "error" -> Throw(main, "driver")
                   [] outcome = "ok" -> [main EXCEPT !.pc = "loop",
                                                     !.acquiring = TRUE]
    /\ UNCHANGED << decoderVars, pure, batch, fe >>

\* One turn of the streaming loop: it goes on, it ends with the streaming
\* time, or a fatal error is thrown.
MainLoopTurn ==
    /\ main.pc = "loop"
    /\ \/ /\ main.turns < MaxTurns
          /\ main' = [main EXCEPT !.turns = @ + 1]
       \/ main' = [main EXCEPT !.pc = "stop"]
       \/ \E e \in FatalErrors :
            main' = [Throw(main, e) EXCEPT !.inLoop = TRUE]
    /\ UNCHANGED << decoderVars, pure, batch, fe >>

\* After the loop: checkApiCall(AqMD3_Abort), checkApiCall(AqMD3_close),
\* return 0.
MainStop ==
    /\ main.pc = "stop"
    /\ \E abortOk \in BOOLEAN, closeOk \in BOOLEAN :
         LET a == Abort(main, abortOk)
             c == Close(a, closeOk)
         IN  main' = IF ~abortOk THEN Throw(a, "driver")
                     ELSE IF ~closeOk THEN Throw(c, "driver")
                     ELSE Return(c, 0)
    /\ UNCHANGED << decoderVars, pure, batch, fe >>

MainCatch ==
    /\ main.pc = "catch"
    /\ \E isIdleOk \in BOOLEAN, abortOk \in BOOLEAN, closeOk \in BOOLEAN :
         main' = CatchBlock(main, isIdleOk, abortOk, closeOk)
    /\ UNCHANGED << decoderVars, pure, batch, fe >>

NextMain ==
    \/ MainInitWithOptions
    \/ MainConfigure
    \/ MainLoopTurn
    \/ MainStop
    \/ MainCatch

SpecMain == InitMain /\ [][NextMain]_vars

\* C22: a main that exits after a fatal error was thrown inside its
\* streaming loop has called AqMD3_Abort and AqMD3_close on its session.
C22_AbortAndCloseOnFatalError ==
    (main.pc = "exited" /\ main.inLoop) =>
        (main.abortCalls > 0 /\ main.closeCalls > 0)

\* streamingExample.cpp exits on a fetch error with the acquisition running
\* and the session open
C22_SessionLeft ==
    /\ main.pc = "exited" /\ main.program = "streamingExample"
    /\ main.raised = "fetch" /\ main.inLoop
    /\ main.exit = 1
    /\ main.acquiring /\ main.session = "open"
    /\ main.abortCalls = 0 /\ main.closeCalls = 0

\* ------------------------------ C23, C24, C29: functions called on their own
\* StandardStreaming::DecodeTriggerMarker: the same statements as
\* ZeroSuppress::MarkerStreamDecoder::DecodeTriggerMarker.
StandardStreamingDecodeTriggerMarker(s, g) == DecodeTriggerMarker(s, g)

MaxInt32 == NumericMax
MinInt32 == (-MaxInt32) - 1

\* Header, low and high words of a marker, bit 31 set or clear; the header
\* of a gate start among them.
HeaderWords == {TriggerNormal, TriggerAverager + 3 * Pow2_8,
                TriggerNormal - Pow2_8, MinInt32 + TriggerAverager,
                MaxInt32 - (Pow2_8 - 1) + TriggerNormal, GateStartCst}
LowWords == {0, Pow2_8 - 1, 5 * Pow2_8 + 3, -1, MinInt32, MaxInt32}
HighWords == {0, 1, Pow2_16 - 1, Pow2_16, -1, MinInt32, MaxInt32}

MaxTail == 2

\* A marker stream that starts with the three words, padded to the size of
\* a trigger marker less `short` elements, then `tail` more elements.
WordStream(e0, e1, e2, short, tail) ==
    LET data == << e0, e1, e2 >>
                \o [i \in 1..(NbrTriggerMarkerElements - 3 - short + tail)
                      |-> 0]
    IN  ArraySegment(data, 0, Len(data))

DecodeTriggerMarkerCalls ==
    {[fn |-> "DecodeTriggerMarker", stream |-> WordStream(e0, e1, e2, s, t),
      done |-> FALSE, out |-> NoCall] :
        e0 \in HeaderWords, e1 \in LowWords, e2 \in HighWords,
        s \in {0, 1}, t \in {0, MaxTail}}

\* the read of an element that is not there yields some value
ApplyDecodeTriggerMarker ==
    /\ pure.fn = "DecodeTriggerMarker" /\ ~pure.done
    /\ \E g \in OobValues :
         pure' = [pure EXCEPT
                    !.done = TRUE,
                    !.out = StandardStreamingDecodeTriggerMarker(pure.stream, g)]
    /\ UNCHANGED << decoderVars, batch, fe, main >>

DivValues ==
    {MinInt32, MinInt32 + 1, MaxInt32 - 2, MaxInt32 - 1, MaxInt32}
    \cup (-7 .. 7)

Dividers == {-1, 0, 1, 2, 3, 4, MaxInt32}

CeilDivCalls ==
    {[fn |-> "CeilDiv", value |-> v, divider |-> d, done |-> FALSE,
      out |-> NoCall] : v \in DivValues, d \in Dividers}

ApplyCeilDiv ==
    /\ pure.fn = "CeilDiv" /\ ~pure.done
    /\ pure' = [pure EXCEPT !.done = TRUE,
                            !.out = CeilDiv(pure.value, pure.divider)]
    /\ UNCHANGED << decoderVars, batch, fe, main >>

\* AlignUp(value, grain), and AlignUp of what it returned. With a grain
\* below 1 the subtraction max - (grain - 1) of the guard overflows: the
\* guard then goes either way, and the call ends with the logic_error of
\* AlignUp or the invalid_argument of CeilDiv.
AlignUpCalls ==
    {[fn |-> "AlignUp", value |-> v, grain |-> d, done |-> FALSE,
      out |-> NoCall, again |-> NoCall] : v \in DivValues, d \in Dividers}

ApplyAlignUp ==
    /\ pure.fn = "AlignUp" /\ ~pure.done
    /\ IF pure.grain < 1
       THEN \E e \in {"logic_error", "invalid_argument"} :
              pure' = [pure EXCEPT !.done = TRUE,
                                   !.out = [err |-> e, val |-> 0]]
       ELSE pure' = [pure EXCEPT !.done = TRUE,
                                 !.out = AlignUp(pure.value, pure.grain)]
    /\ UNCHANGED << decoderVars, batch, fe, main >>

ApplyAlignUpAgain ==
    /\ pure.fn = "AlignUp" /\ pure.done /\ pure.again = NoCall
    /\ pure.out.err = ""
    /\ pure' = [pure EXCEPT !.again = AlignUp(pure.out.val, pure.grain)]
    /\ UNCHANGED << decoderVars, batch, fe, main >>

InitPure ==
    /\ DecoderInit /\ m_mode = "Normal"
    /\ pure \in DecodeTriggerMarkerCalls \cup CeilDivCalls \cup AlignUpCalls
    /\ batch = NoBatch
    /\ fe = NoFetch
    /\ main = NoMain

NextPure ==
    \/ ApplyDecodeTriggerMarker
    \/ ApplyCeilDiv
    \/ ApplyAlignUp
    \/ ApplyAlignUpAgain

SpecPure == InitPure /\ [][NextPure]_vars

\* The int32_t whose bits 8..31 are high24 and whose bits 0..7 are low8.
Int32Of(high24, low8) ==
    IF high24 >= Pow2_24 \div 2
    THEN (high24 - Pow2_24) * Pow2_8 + low8
    ELSE high24 * Pow2_8 + low8

\* Bits 8..31 of a word, read as an unsigned number.
UpperBits(x) ==
    IF x >= 0 THEN x \div Pow2_8 ELSE Pow2_24 + ((x - (x % Pow2_8)) \div Pow2_8)

\* The three words a trigger marker is encoded in: tag and record index,
\* sub-sample time and low 24 bits of the sample index, the rest of the
\* sample index.
EncodeTriggerMarker(t) ==
    << Int32Of(t.recordIndex, t.tag),
       Int32Of(t.absoluteSampleIndex.lo, -t.triggerTimeSamples),
       Int32Of(t.absoluteSampleIndex.top * Pow2_8
                   + t.absoluteSampleIndex.hi \div Pow2_8,
               t.absoluteSampleIndex.hi % Pow2_8) >>

Word(s, k) == s.m_data[s.m_offset + k + 1]

DecodedTrigger ==
    /\ pure.fn = "DecodeTriggerMarker" /\ pure.done
    /\ pure.out.err = ""

C24_SampleIndexBelow2Pow40 ==
    DecodedTrigger => pure.out.val.absoluteSampleIndex.top = 0

\* C24: the decoded absoluteSampleIndex is a 56-bit field, in [0, 2^56):
\* its low 24 bits are bits 8..31 of e1, its high 32 bits are e2; it is
\* below 2^40 exactly when bits 16..31 of e2 are clear.
C24_SampleIndexWidth ==
    DecodedTrigger =>
      LET a == pure.out.val.absoluteSampleIndex
          e2 == Word(pure.stream, 2)
      IN  /\ a.top \in 0..(Pow2_16 - 1)
          /\ a.hi \in 0..(Pow2_16 - 1)
          /\ a.lo \in 0..(Pow2_24 - 1)
          /\ a.top * Pow2_8 + a.hi \div Pow2_8 = UpperBits(e2)
          /\ (a.top = 0) <=> (e2 \in 0..(Pow2_16 - 1))

\* e2 = 0x00010000: the index is 2^40 + (bits 8..31 of e1)
C24_Witness ==
    /\ DecodedTrigger
    /\ Word(pure.stream, 2) = Pow2_16
    /\ pure.out.val.absoluteSampleIndex.top = 1
    /\ pure.out.val.absoluteSampleIndex.hi = 0

CeilDivDone == pure.fn = "CeilDiv" /\ pure.done

AlignUpDone == pure.fn = "AlignUp" /\ pure.done

RecordLoops ==
    {"streamingExample", "StreamingAverager", "StreamingAveragerZeroSuppress"}

ExpectedTag(program) ==
    IF program = "streamingExample" THEN TriggerNormal ELSE TriggerAverager

\* The ZeroSuppress loop has no check of the initial x-time.
ChecksXtime(program) == program # "StreamingAveragerZeroSuppress"

\* x rounded to a multiple of 2^e, ties to the even multiple
RoundHalfEven(x, e) ==
    LET q == x \div (2 ^ e)
        r == x % (2 ^ e)
        half == (2 ^ e) \div 2
    IN  IF r > half \/ (r = half /\ r > 0 /\ q % 2 = 1)
        THEN (q + 1) * (2 ^ e) ELSE q * (2 ^ e)

\* double(absoluteSampleIndex): the 53 most significant bits are kept, the
\* one to three bits below them of an index of 2^53 or more are rounded.
ToDouble(index) ==
    LET e == IF index.top >= Pow2_16 \div 2 THEN 3
             ELSE IF index.top >= Pow2_16 \div 4 THEN 2
             ELSE IF index.top >= Pow2_16 \div 8 THEN 1
             ELSE 0
        lo == RoundHalfEven(index.lo, e)
        hi == index.hi + lo \div Pow2_24
    IN  [top |-> index.top + hi \div Pow2_16, hi |-> hi % Pow2_16,
         lo |-> lo % Pow2_24]

\* GetInitialXTime(timestampPeriod) = double(absoluteSampleIndex) *
\* timestampPeriod, kept in units of the timestamp period.
GetInitialXTime(trigger) == ToDouble(trigger.absoluteSampleIndex)

\* a <= b on x-times
XtimeLessEq(a, b) ==
    \/ a.top < b.top
    \/ a.top = b.top /\ a.hi < b.hi
    \/ a.top = b.top /\ a.hi = b.hi /\ a.lo <= b.lo

\* (variant: the expected record index is compared without the mask)
RecordChecksNoMask(program, expectedRecordIndex, minXtime, trigger) ==
    IF trigger.tag # ExpectedTag(program)
    THEN "UnexpectedTriggerTag"
    ELSE IF expectedRecordIndex # trigger.recordIndex
    THEN "UnexpectedRecordIndex"
    ELSE IF ChecksXtime(program)
            /\ XtimeLessEq(GetInitialXTime(trigger), minXtime)
    THEN "XTimeNotIncreasing"
    ELSE ""

\* The checks a loop makes on the trigger marker of the next record, in the
\* order it makes them: the exception thrown, "" when there is none.
RecordChecks(program, expectedRecordIndex, minXtime, trigger) ==
    IF ChecksXtime(program)
    THEN IF trigger.tag # ExpectedTag(program)
         THEN "UnexpectedTriggerTag"
         ELSE IF (expectedRecordIndex % Pow2_24) # trigger.recordIndex
         THEN "UnexpectedRecordIndex"
         ELSE IF XtimeLessEq(GetInitialXTime(trigger), minXtime)
         THEN "XTimeNotIncreasing"
         ELSE ""
    ELSE IF (expectedRecordIndex % Pow2_24) # trigger.recordIndex
         THEN "UnexpectedRecordIndex"
         ELSE IF trigger.tag # ExpectedTag(program)
         THEN "UnexpectedTriggerTag"
         ELSE ""

MaxRecords == 2

\* elements of a record in the sample stream
nbrRecordElements == 1

\* Headers of the markers a loop may meet: both trigger tags with the
\* record indices 0, 1 and 2^24 - 1, and a header that is no trigger.
RecordHeaders ==
    {t + d : t \in {TriggerNormal, TriggerAverager},
             d \in {0, Pow2_8, -Pow2_8}} \cup {GateStartCst}

\* Their low and high words: the sample indices 0, 1, 2^24, 2^24 + 1, 2^53,
\* 2^53 + 1.
RecordTimestamps ==
    {<< 0, 0 >>, << Pow2_8, 0 >>, << 0, 1 >>, << Pow2_8, 1 >>,
     << 0, Pow2_16 * Pow2_8 * 32 >>, << Pow2_8, Pow2_16 * Pow2_8 * 32 >>}

\* Where a session can stand when a fetch brings records: no record
\* processed yet, or 2^24 - 1 or 2^24 of them, the last at sample index 2^24.
SessionPoints ==
    {[expectedRecordIndex |-> 0, minXtime |-> [top |-> 0, hi |-> 0, lo |-> 0]],
     [expectedRecordIndex |-> Pow2_24 - 1,
      minXtime |-> [top |-> 0, hi |-> 1, lo |-> 0]],
     [expectedRecordIndex |-> Pow2_24,
      minXtime |-> [top |-> 0, hi |-> 1, lo |-> 0]]}

NoOffer == [err |-> "None"]

\* The container reads of one record's processing in streamingExample.cpp,
\* each [container, index, size]: sampleArraySegment[j] for j <
\* nbrRecordElements, and sampleData[i] for i < 5 on the vector that was
\* default-constructed the line before. (The other loops hand the segment
\* to SaveRecord / UnpackRecord.)
ReadsOfRecord(program, sampleArraySegment) ==
    IF program = "streamingExample"
    THEN {[container |-> "sampleArraySegment", index |-> j,
           size |-> Size(sampleArraySegment)] : j \in 0..(nbrRecordElements - 1)}
         \cup {[container |-> "sampleData", index |-> i, size |-> 0] :
                  i \in 0..4}
    ELSE {}

\* The loop over the records of a fetch: main = [pc, program, first,
\* expectedRecordIndex, minXtime, i, numAvailableRecords,
\* sampleArraySegment, offered, accepted, reads, err]; first is where the
\* session stood before the loop, offered the decoding of the last marker
\* met, accepted the markers that passed the checks with the index expected
\* then, reads the container reads of the last turn.
InitRecords ==
    /\ DecoderInit /\ m_mode = "Normal"
    /\ pure = NoCall
    /\ batch = NoBatch
    /\ fe = NoFetch
    /\ \E p \in RecordLoops, at \in SessionPoints, n \in 1..MaxRecords :
         main = [pc |-> "records", program |-> p, first |-> at,
                 expectedRecordIndex |-> at.expectedRecordIndex,
                 minXtime |-> at.minXtime, i |-> 0,
                 numAvailableRecords |-> n,
                 sampleArraySegment |->
                     IF ChecksXtime(p)
                     THEN ArraySegment([k \in 1..(n * nbrRecordElements) |-> 0],
                                       0, n * nbrRecordElements)
                     ELSE ArraySegment(<< >>, 0, 0),
                 offered |-> NoOffer, accepted |-> << >>, reads |-> {},
                 err |-> ""]

\* One turn of the loop: the trigger marker is decoded and checked, the
\* record's elements are popped, the expected index and the minimum x-time
\* move on. streamingExample.cpp reads five elements of an empty vector on
\* its way: the turn goes on or the program dies there.
ProcessRecord ==
    /\ main.pc = "records"
    /\ \E e0 \in RecordHeaders, ts \in RecordTimestamps, g \in OobValues,
          dies \in BOOLEAN :
         LET marker == WordStream(e0, ts[1], ts[2], 0, 0)
             t == IF ChecksXtime(main.program)
                  THEN StandardStreamingDecodeTriggerMarker(marker, g)
                  ELSE DecodeTriggerMarker(marker, g)
             check == RecordChecks(main.program, main.expectedRecordIndex,
                                   main.minXtime, t.val)
             popped == PopFront(main.sampleArraySegment,
                                IF ChecksXtime(main.program)
                                THEN nbrRecordElements ELSE 0)
             err == IF t.err # "" THEN t.err
                    ELSE IF check # "" THEN check
                    ELSE popped.err
             reads == ReadsOfRecord(main.program, main.sampleArraySegment)
             m == [main EXCEPT !.offered = [err |-> t.err, val |-> t.val],
                               !.reads = {}]
         IN  IF t.err # "" \/ check # ""
             THEN main' = [m EXCEPT !.pc = "thrown", !.err = err]
             ELSE IF dies /\ main.program = "streamingExample"
             THEN main' = [m EXCEPT !.pc = "crashed", !.reads = reads]
             ELSE IF err # ""
             THEN main' = [m EXCEPT !.pc = "thrown", !.err = err,
                                    !.reads = reads]
             ELSE main' =
                    [m EXCEPT
                       !.reads = reads,
                       !.sampleArraySegment = popped.stream,
                       !.accepted =
                           Append(@, [k |-> main.expectedRecordIndex,
                                      trigger |-> t.val]),
                       !.expectedRecordIndex = @ + 1,
                       !.minXtime = IF ChecksXtime(main.program)
                                    THEN GetInitialXTime(t.val) ELSE @,
                       !.i = @ + 1,
                       !.pc = IF main.i + 1 = main.numAvailableRecords
                              THEN "done" ELSE "records"]
    /\ UNCHANGED << decoderVars, pure, batch, fe >>

NextRecords == ProcessRecord

SpecRecords == InitRecords /\ [][NextRecords]_vars

\* a < b on sample indices
IndexLess(a, b) ==
    \/ a.top < b.top
    \/ a.top = b.top /\ a.hi < b.hi
    \/ a.top = b.top /\ a.hi = b.hi /\ a.lo < b.lo

\* The record a loop expects next: the index and the tag.
InSequence(program, k, trigger) ==
    /\ trigger.recordIndex = k % Pow2_24
    /\ trigger.tag = ExpectedTag(program)

AcceptedInSequence ==
    \A j \in 1..Len(main.accepted) :
        LET a == main.accepted[j]
        IN  /\ a.k = main.first.expectedRecordIndex + j - 1
            /\ InSequence(main.program, a.k, a.trigger)
            /\ ChecksXtime(main.program) =>
                   IndexLess(IF j = 1 THEN main.first.minXtime
                             ELSE main.accepted[j - 1].trigger
                                      .absoluteSampleIndex,
                             a.trigger.absoluteSampleIndex)

\* C25: the k-th record of a session is accepted only with recordIndex =
\* k mod 2^24 and the tag the loop expects and, in the Normal and Averager
\* loops, with a sample index above that of the record before (above 0 for
\* the first); a marker that is no trigger, or out of sequence, makes the
\* loop throw, and so does a sample index not above the one before; a
\* record in sequence is not refused for its index or tag, after the wrap
\* of the index either; once the loop has thrown nothing more is processed.
C25_RecordsInStrictSequence ==
    /\ [](main.pc # "None" => AcceptedInSequence)
    /\ [][main.pc = "records" =>
            LET o == main'.offered
                k == main.expectedRecordIndex
                good == o.err = "" /\ InSequence(main.program, k, o.val)
                late == /\ ChecksXtime(main.program)
                        /\ ~IndexLess(main.minXtime, o.val.absoluteSampleIndex)
            IN  /\ (~good \/ late) =>
                      /\ main'.pc = "thrown"
                      /\ main'.accepted = main.accepted
                      /\ main'.expectedRecordIndex = k
                /\ (good /\ ~ChecksXtime(main.program)) => main'.pc # "thrown"
                /\ main'.pc = "thrown" =>
                      (~good \/ main'.err = "XTimeNotIncreasing")
                /\ main'.pc \in {"records", "done"} =>
                      /\ main'.accepted = Append(main.accepted,
                                                 [k |-> k, trigger |-> o.val])
                      /\ main'.expectedRecordIndex = k + 1]_vars
    /\ [][main.pc \in {"thrown", "crashed"} => main' = main]_vars

\* the record 2^24 - 1 and, after the wrap, the record 2^24 with index 0
C25_Witness ==
    /\ main.pc = "done" /\ main.program = "streamingExample"
    /\ Len(main.accepted) = 2
    /\ main.accepted[1].k = Pow2_24 - 1
    /\ main.accepted[1].trigger.recordIndex = Pow2_24 - 1
    /\ main.accepted[2].k = Pow2_24
    /\ main.accepted[2].trigger.recordIndex = 0
    /\ main.expectedRecordIndex = Pow2_24 + 1

NormalRecord(record) ==
    /\ record.m_gateList = << >>
    /\ record.m_recordStop
         = [m_blockIndex |-> 1, m_gateEndIndex |-> 0, m_tag |-> RecordStop]
    /\ \A ps \in ParameterSets \cup BatchParameterSets :
         RecordGetStoredSampleCount(record, ps) = [err |-> "", val |-> 0]

\* C26: every record a Normal-mode decoder pushes, holds in its queue or
\* returns has an empty gate list and the default record stop (block index
\* 1, gate-end index 0, tag RecordStop), hence a stored-sample count of 0;
\* the decoder stays in state ExpectTrigger.
C26_NormalModeRecords ==
    m_mode = "Normal" =>
        /\ m_state = "ExpectTrigger"
        /\ \A i \in 1..Len(completed) : NormalRecord(completed[i])
        /\ \A i \in 1..Len(m_recordQueue) : NormalRecord(m_recordQueue[i])
        /\ \A i \in 1..Len(returned) : NormalRecord(returned[i])

\* two records decoded, the first of them taken
C26_Witness ==
    /\ m_mode = "Normal"
    /\ Len(completed) = 2
    /\ completed[1].m_trigger = TriggerOf(TrigN)
    /\ completed[2].m_trigger = TriggerOf(TrigA)
    /\ returned = << completed[1] >>
    /\ m_recordQueue = << completed[2] >>

\* ------------------------------------------------- C27: FetchElements(0)
\* The records of the batch hold no sample: every one is a trigger followed
\* by its record stop, or counts 0 samples.
NothingStored ==
    GetStoredSampleCountForRecords(batch.recordDescriptorList, batch.params)
        = [err |-> "", val |-> 0]

\* C27: FetchElements(0) returns the empty segment at the head of the
\* buffer, in both programs, with no driver call made and nothing taken
\* from the stream; a batch of records whose samples are all suppressed is
\* processed to its end without a fetch and without an error.
C27_NothingToFetch ==
    /\ \A b \in FetchBuffers \cup {SampleStreamBuffer} :
         /\ FetchElementsEntry(0, b)
              = [pc |-> "returned",
                 out |-> [err |-> "", val |-> ArraySegment(b, 0, 0)]]
         /\ FetchElementsZeroSuppressCalls(0, b) = 0
         /\ \A resp \in DriverResponses(0) :
              FetchElementsZeroSuppress(0, b, resp)
                = [err |-> "", val |-> ArraySegment(b, 0, 0)]
    /\ (batch.pc \in {"records", "done", "thrown"} /\ NothingStored) =>
         /\ batch.pc # "thrown" /\ batch.err = ""
         /\ batch.driverCalls = 0
         /\ batch.consumed = 0
         /\ batch.sampleArraySegment = ArraySegment(SampleStreamBuffer, 0, 0)

\* two records of a trigger and a record stop each, processed to the end
C27_Witness ==
    /\ batch.pc = "done" /\ NothingStored
    /\ Len(batch.recordDescriptorList) = MaxBatch
    /\ \A i \in 1..MaxBatch : batch.recordDescriptorList[i].m_gateList = << >>
    /\ batch.driverCalls = 0 /\ batch.consumed = 0
    /\ batch.expectedRecordIndex = MaxBatch

\* ---------------------------------------------------------------------------
\* The caller loop of the marker decoder, on one fetched marker segment:
\*     while (markerArraySegment.Size() > 0)
\*         markerStreamDecoder.DecodeNextMarker(markerArraySegment);
MaxLoopChunks == 3

InitDecodeLoop ==
    /\ m_mode \in {"Normal", "ZeroSuppress"}
    /\ m_recordQueue = << >>
    /\ m_currentRecord = DefaultRecordDescriptor
    /\ m_state = "ExpectTrigger"
    /\ \E cs \in SeqsUpTo(Alphabet(m_mode), MaxLoopChunks) :
         /\ \A i \in 1..(Len(cs) - 1) : cs[i].kind # "truncated"
         /\ stream = ArraySegment(Flatten(cs), 0, Len(Flatten(cs)))
         /\ fetched = cs
         /\ emitted = cs
    /\ atFetch = [m_state |-> "ExpectTrigger", completed |-> 0]
    /\ completed = << >>
    /\ returned = << >>
    /\ last = Call("Fetch", "", 0, << >>, 0)
    /\ pure = NoCall
    /\ batch = NoBatch
    /\ fe = NoFetch
    /\ main = NoMain

\* One turn of the loop; an exception of DecodeNextMarker leaves the loop.
DecodeLoopTurn ==
    /\ Size(stream) > 0
    /\ ~(last.op = "Decode" /\ last.err # "")
    /\ Decode

NextDecodeLoop == DecodeLoopTurn

\* The loop thread runs on: a call of DecodeNextMarker returns or throws.
SpecDecodeLoop == InitDecodeLoop /\ [][NextDecodeLoop]_vars /\ WF_vars(DecodeLoopTurn)

DecodeFailed == last.op = "Decode" /\ last.err # ""

\* C31: a DecodeNextMarker call on a non-empty stream either fails or returns
\* with the stream at least 2 elements shorter, in every mode and state; so
\* the loop "while stream.Size() > 0: DecodeNextMarker(stream)" comes, from
\* every non-empty stream, to an empty stream or to a failed call.
C31_DecodeConsumesOrFails ==
    /\ [][(last'.op = "Decode" /\ Size(stream) > 0 /\ last'.err = "")
          => /\ Size(stream') <= Size(stream) - NbrGateMarkerElements
             /\ last'.consumed >= NbrGateMarkerElements]_vars
    /\ (Size(stream) > 0) ~> (Size(stream) = 0 \/ DecodeFailed)

\* A call that decoded a 2-element marker, the smallest step of the loop, and
\* left markers to decode.
C31_Witness ==
    /\ last.op = "Decode"
    /\ last.err = ""
    /\ last.consumed = NbrGateMarkerElements
    /\ Size(stream) > 0
    /\ m_mode = "ZeroSuppress"

\* ---------------------------------------------------------------------------
\* The state changes of a ZeroSuppress-mode decoder
ZeroSuppressTransitions ==
    { << "ExpectTrigger", "ExpectGate" >>, << "ExpectAlign", "ExpectGate" >>,
      << "ExpectGate", "ExpectAlign" >> }

\* C32: in ZeroSuppress mode m_state changes only in a successful decode call
\* and only along ExpectTrigger -> ExpectGate, ExpectAlign -> ExpectGate (a
\* trigger marker was consumed) and ExpectGate -> ExpectAlign; ExpectTrigger
\* is never entered again; a decode call never shortens the queue and makes
\* it longer, by exactly one, exactly when it goes ExpectGate -> ExpectAlign.
C32_ZeroSuppressStateMachine ==
    [][ZeroSuppressMode =>
         /\ m_state' # m_state =>
              /\ << m_state, m_state' >> \in ZeroSuppressTransitions
              /\ last'.op = "Decode" /\ last'.err = ""
              /\ m_state' = "ExpectGate" =>
                   /\ last'.consumed >= NbrTriggerMarkerElements
                   /\ IsTriggerMarkerTag(m_currentRecord'.m_trigger.tag)
              /\ m_state' = "ExpectAlign" =>
                   IsRecordStop(m_currentRecord'.m_recordStop)
         /\ last'.op = "Decode" =>
              /\ Len(m_recordQueue') \in
                   {Len(m_recordQueue), Len(m_recordQueue) + 1}
              /\ Len(m_recordQueue') = Len(m_recordQueue) + 1
                   <=> (m_state = "ExpectGate" /\ m_state' = "ExpectAlign")]_vars

\* A second record was started from ExpectAlign after the first one had been
\* pushed on the way from ExpectGate to ExpectAlign.
C32_Witness ==
    /\ ZeroSuppressMode
    /\ last.op = "Decode" /\ last.err = ""
    /\ m_state = "ExpectGate"
    /\ Len(completed) = 1

\* ---------------------------------------------------------------------------
\* Gates against the record stop: well-tagged markers whose block indices
\* the decoder accepts, among them a gate that stops at block 3 while the
\* record stops at block 2.
GateLate == Chunk("gate", GateStartCst, 2, 0, 0, GateStopCst, 3, 0)

LateGateAlphabet == {TrigN, GateCst, GateRS, GateLate, StopRS}

MaxLateChunks == 4

FetchLateGates == Fetch(LateGateAlphabet, MaxLateChunks)

NextLateGates == FetchLateGates \/ Decode \/ DoTake \/ DoPop

SpecLateGates == InitWF /\ [][NextLateGates]_vars

\* C33 as stated: every record delivered by Take or Pop has all its gate
\* stops at or before its record stop.
C33_DeliveredRecordsCountable ==
    \A i \in 1..Len(returned) : Countable(returned[i])

\* C33: a delivered record carries a decoded record stop and gates with
\* 1 <= start block <= stop block, but its gate stops are not compared with
\* its record stop: GetStoredSampleCount succeeds on it exactly when every
\* gate stops at or before the record stop, and fails with invalid_argument
\* otherwise.
C33_CountSucceedsIffGatesBeforeStop ==
    \A i \in 1..Len(returned) :
        /\ returned[i].m_recordStop.m_tag = RecordStop
        /\ GateListOk(returned[i])
        /\ \A params \in ParameterSets :
             LET c == RecordGetStoredSampleCount(returned[i], params)
             IN  /\ c.err = "" <=> Countable(returned[i])
                 /\ c.err \in {"", "invalid_argument"}

\* Take or Pop delivered the record of trigger, late gate, record stop.
C33_Witness ==
    /\ emitted = << TrigN, GateLate, StopRS >>
    /\ Len(returned) = 1
    /\ Len(returned[1].m_gateList) = 1
    /\ ~Countable(returned[1])

\* ---------------------------------------------------------------------------
\* C34: DecodeNextMarker called with an empty stream fails (it throws
\* "Cannot decode markers from an empty stream") in every mode and state,
\* and leaves m_state, the in-progress record, the queue and the stream as
\* they were.
C34_EmptyStreamFails ==
    [][(last'.op = "Decode" /\ Size(stream) = 0)
          => /\ last'.err = "EmptyStream"
             /\ last'.consumed = 0
             /\ UNCHANGED << m_state, m_currentRecord, m_recordQueue,
                             m_mode, stream, completed >>]_vars

\* The call failed on an empty stream while a record was in progress.
C34_Witness ==
    /\ last.op = "Decode" /\ last.err = "EmptyStream"
    /\ ZeroSuppressMode
    /\ m_state = "ExpectGate"
    /\ Len(m_currentRecord.m_gateList) = 1

\* ---------------------------------------------------------------------------
\* The Normal-mode streaming loop (streamingExample.cpp, StreamingAverager):
\* each turn fetches the marker elements the driver has, takes
\* Size() / 16 of them as records, fetches their samples and decodes one
\* trigger marker a record.
StreamingLoops == {"streamingExample", "StreamingAverager"}

\* records fetched at once (15 and 8096 in the programs)
maxRecordsToFetchAtOnce == 2

maxMarkerElements == NbrTriggerMarkerElements * maxRecordsToFetchAtOnce

MaxLoopTurns == 2

\* The marker stream of the firmware: whole trigger markers of the records
\* 0, 1, 2, ... with increasing sample indices; element p of the stream.
MarkerStreamAt(program, p) ==
    LET k == p \div NbrTriggerMarkerElements
    IN  TriggerElements(Chunk("trigger", ExpectedTag(program), k, 0, k + 1,
                              0, 0, 0))[(p % NbrTriggerMarkerElements) + 1]

\* for (i = 0; i < numAvailableRecords; ++i) { DecodeTriggerMarker, checks,
\* PopFront of the record's elements, ++expectedRecordIndex, minXtime = xtime }
RECURSIVE RecordLoop(_, _, _, _, _, _)
RecordLoop(program, markers, samples, left, expectedRecordIndex, minXtime) ==
    IF left = 0
    THEN [err |-> "", markerArraySegment |-> markers,
          expectedRecordIndex |-> expectedRecordIndex, minXtime |-> minXtime]
    ELSE LET t == StandardStreamingDecodeTriggerMarker(markers, 0)
             check == RecordChecks(program, expectedRecordIndex, minXtime,
                                   t.val)
             popped == PopFront(samples, nbrRecordElements)
             err == IF t.err # "" THEN t.err
                    ELSE IF check # "" THEN check
                    ELSE popped.err
         IN  IF err # ""
             THEN [err |-> err, markerArraySegment |-> t.stream,
                   expectedRecordIndex |-> expectedRecordIndex,
                   minXtime |-> minXtime]
             ELSE RecordLoop(program, t.stream, popped.stream, left - 1,
                             expectedRecordIndex + 1, GetInitialXTime(t.val))

\* main = [pc, program, totalMarkerElements, expectedRecordIndex, minXtime,
\* fetched, left, turns, err]: fetched and left are the sizes of the marker
\* segment of the last turn when it was fetched and at the end of the turn.
InitStreaming ==
    /\ DecoderInit /\ m_mode = "Normal"
    /\ pure = NoCall
    /\ batch = NoBatch
    /\ fe = NoFetch
    /\ \E p \in StreamingLoops :
         main = [pc |-> "loop", program |-> p, totalMarkerElements |-> 0,
                 expectedRecordIndex |-> 0,
                 minXtime |-> [top |-> 0, hi |-> 0, lo |-> 0],
                 fetched |-> 0, left |-> 0, turns |-> 0, err |-> ""]

\* One turn of while (system_clock::now() < endTime): the marker fetch
\* returns n elements (any count up to maxMarkerElements) or throws, the
\* sample fetch returns the elements asked for or throws, the records are
\* processed. streamingExample.cpp reads an empty vector in every record:
\* the turn goes on or the program dies there.
StreamingLoopTurn ==
    /\ main.pc = "loop"
    /\ main.turns < MaxLoopTurns
    /\ \E n \in 0..maxMarkerElements, markersOk \in BOOLEAN,
          samplesOk \in BOOLEAN, dies \in BOOLEAN :
         LET markerArraySegment ==
                 ArraySegment([i \in 1..n |->
                                 MarkerStreamAt(main.program,
                                     main.totalMarkerElements + i - 1)], 0, n)
             numAvailableRecords == n \div NbrTriggerMarkerElements
             nbrSamples == numAvailableRecords * nbrRecordElements
             sampleArraySegment ==
                 ArraySegment([i \in 1..nbrSamples |-> 0], 0, nbrSamples)
             r == RecordLoop(main.program, markerArraySegment,
                             sampleArraySegment, numAvailableRecords,
                             main.expectedRecordIndex, main.minXtime)
             m == [main EXCEPT !.turns = @ + 1]
         IN  IF ~markersOk
             THEN main' = [m EXCEPT !.pc = "thrown",
                                    !.err = "FetchAvailableElements"]
             ELSE IF n = 0
             THEN main' = [m EXCEPT !.fetched = 0, !.left = 0]
             ELSE IF nbrSamples > 0 /\ ~samplesOk
             THEN main' = [m EXCEPT !.pc = "thrown", !.err = "FetchElements",
                                    !.totalMarkerElements = @ + n,
                                    !.fetched = n, !.left = n]
             ELSE IF r.err = "" /\ dies /\ numAvailableRecords > 0
                     /\ main.program = "streamingExample"
             THEN main' = [m EXCEPT !.pc = "crashed",
                                    !.totalMarkerElements = @ + n,
                                    !.fetched = n]
             ELSE main' =
                    [m EXCEPT !.pc = IF r.err = "" THEN "loop" ELSE "thrown",
                              !.err = r.err,
                              !.totalMarkerElements = @ + n,
                              !.expectedRecordIndex = r.expectedRecordIndex,
                              !.minXtime = r.minXtime,
                              !.fetched = n,
                              !.left = Size(r.markerArraySegment)]
    /\ UNCHANGED << decoderVars, pure, batch, fe >>

\* The streaming duration is over.
StreamingLoopEnds ==
    /\ main.pc = "loop"
    /\ main' = [main EXCEPT !.pc = "ended"]
    /\ UNCHANGED << decoderVars, pure, batch, fe >>

NextStreaming == StreamingLoopTurn \/ StreamingLoopEnds

SpecStreaming == InitStreaming /\ [][NextStreaming]_vars

\* C35: at the end of every turn of the Normal-mode streaming loop that
\* raised no error, every marker element fetched so far has been consumed by
\* DecodeTriggerMarker: the marker segment is empty and the marker elements
\* fetched so far are 16 times the records processed so far.
C35_NoMarkerElementLost ==
    main.pc \in {"loop", "ended"} =>
        /\ main.left = 0
        /\ main.totalMarkerElements
               = NbrTriggerMarkerElements * main.expectedRecordIndex

\* A turn ended without an error and left half a marker in its segment.
C35_MarkerElementsDropped ==
    /\ main.pc = "loop"
    /\ main.fetched = NbrTriggerMarkerElements + 8
    /\ main.left = 8
    /\ main.expectedRecordIndex = 1

\* ---------------------------------------------------------------------------
\* C36: the per-record processing of the streaming loop in
\* streamingExample.cpp reads every container within its bounds: each index
\* read from the sample segment, and each index read from a local vector, is
\* smaller than the container's size.
C36_RecordReadsInBounds ==
    \A r \in main.reads : 0 <= r.index /\ r.index < r.size

\* The first record of a batch was processed: its samples were read within
\* the segment, and element 0 of the empty vector sampleData was read.
C36_ReadOfEmptyVector ==
    /\ main.program = "streamingExample"
    /\ main.pc \in {"records", "done"}
    /\ main.i = 1
    /\ [container |-> "sampleData", index |-> 0, size |-> 0] \in main.reads
    /\ \A r \in main.reads :
         r.container = "sampleArraySegment" => r.index < r.size

\* ---------------------------------------------------------------------------
\* PrintMarkers of the peak-list example: a stream of 8-element markers
NbrPeakMarkerElements == 8

PeakTrigger == 17
PeakPulse == 20
PeakAlignment == 31

\* PrintTriggerMarker: the tag check; what follows reads elements 1 and 2
\* and prints them, whatever they hold.
PrintTriggerMarker(s) ==
    IF ExtractTag(At(s, 0, 0)) # PeakTrigger THEN "ExpectedTriggerTag" ELSE ""

\* PrintPulseMarker: the tag check; what follows reads elements 1 to 7,
\* expands signs over accepted widths (48, 22, 20, 24, 17) and prints them,
\* whatever they hold.
PrintPulseMarker(s) ==
    IF ExtractTag(At(s, 0, 0)) # PeakPulse THEN "ExpectedPulseTag" ELSE ""

\* (variant: an alignment marker is taken for a 2-element marker)
PrintMarkersTurnShortAlignment(s) ==
    LET tag == ExtractTag(At(s, 0, 0))
        printed == IF tag = PeakTrigger THEN PrintTriggerMarker(s)
                   ELSE IF tag = PeakPulse THEN PrintPulseMarker(s)
                   ELSE ""
    IN  IF tag \notin {PeakTrigger, PeakPulse, PeakAlignment}
        THEN [err |-> "UnexpectedTag", stream |-> s]
        ELSE IF printed # ""
        THEN [err |-> printed, stream |-> s]
        ELSE PopFront(s, IF tag = PeakAlignment THEN NbrGateMarkerElements
                         ELSE NbrPeakMarkerElements)

\* One turn of the while loop of PrintMarkers: the switch on the tag
PrintMarkersTurn(s) ==
    LET tag == ExtractTag(At(s, 0, 0))
        printed == IF tag = PeakTrigger THEN PrintTriggerMarker(s)
                   ELSE IF tag = PeakPulse THEN PrintPulseMarker(s)
                   ELSE ""
    IN  IF tag \notin {PeakTrigger, PeakPulse, PeakAlignment}
        THEN [err |-> "UnexpectedTag", stream |-> s]
        ELSE IF printed # ""
        THEN [err |-> printed, stream |-> s]
        ELSE PopFront(s, NbrPeakMarkerElements)

MaxPeakMarkers == 2

\* The headers of the markers met, with a record index above the tag: the
\* three tags of the peak stream and two that are not.
PeakHeaders ==
    {PeakTrigger + Pow2_8, PeakPulse + Pow2_8, PeakAlignment, TagNone,
     TriggerNormal + Pow2_8}

PeakMarker(header) ==
    << header >> \o [i \in 1..(NbrPeakMarkerElements - 1) |-> i]

\* Whole markers followed by the first elements of one more, from none of
\* them to all but one.
RECURSIVE PeakElements(_)
PeakElements(hs) ==
    IF hs = << >> THEN << >>
    ELSE PeakMarker(Head(hs)) \o PeakElements(Tail(hs))

PeakStreams ==
    {PeakElements(hs) \o SubSeq(PeakMarker(h), 1, t) :
        hs \in SeqsUpTo(PeakHeaders, MaxPeakMarkers) \cup {<< >>},
        h \in PeakHeaders, t \in 0..(NbrPeakMarkerElements - 1)}

\* main = [pc, first, peaksArraySegment, turns, err]; first is the segment
\* PrintMarkers was called with.
InitPeaks ==
    /\ DecoderInit /\ m_mode = "Normal"
    /\ pure = NoCall
    /\ batch = NoBatch
    /\ fe = NoFetch
    /\ \E data \in PeakStreams :
         main = [pc |-> "PrintMarkers",
                 first |-> ArraySegment(data, 0, Len(data)),
                 peaksArraySegment |-> ArraySegment(data, 0, Len(data)),
                 turns |-> 0, err |-> ""]

\* while (peaksArraySegment.Size() > 0) { switch (tag) ... }
PrintMarkersStep ==
    /\ main.pc = "PrintMarkers"
    /\ IF Size(main.peaksArraySegment) = 0
       THEN main' = [main EXCEPT !.pc = "returned"]
       ELSE LET r == PrintMarkersTurn(main.peaksArraySegment)
            IN  main' = [main EXCEPT
                           !.pc = IF r.err = "" THEN @ ELSE "thrown",
                           !.err = r.err,
                           !.peaksArraySegment = r.stream,
                           !.turns = @ + 1]
    /\ UNCHANGED << decoderVars, pure, batch, fe >>

NextPeaks == PrintMarkersStep

\* PrintMarkers runs on.
SpecPeaks == InitPeaks /\ [][NextPeaks]_vars /\ WF_vars(PrintMarkersStep)

PeakTags == {PeakTrigger, PeakPulse, PeakAlignment}

LeadingPeakTag == ExtractTag(At(main.peaksArraySegment, 0, 0))

\* C37: PrintMarkers consumes a peak-list stream in whole 8-element markers
\* until it is empty: a turn on a tag 0x11, 0x14 or 0x1f that does not fail
\* consumes exactly 8 elements and a turn fails only on another tag or on
\* fewer than 8 elements; another leading tag raises an error; an error
\* leaves the stream where the turn found it; a stream whose length is no
\* multiple of 8 ends in an error; and the loop ends for every stream.
C37_PrintMarkersWholeMarkers ==
    /\ [][(main.pc = "PrintMarkers" /\ Size(main.peaksArraySegment) > 0)
            => /\ main'.pc = "PrintMarkers" =>
                    /\ LeadingPeakTag \in PeakTags
                    /\ main'.peaksArraySegment =
                         [main.peaksArraySegment EXCEPT
                            !.m_offset = @ + NbrPeakMarkerElements,
                            !.m_size = @ - NbrPeakMarkerElements]
               /\ main'.pc = "thrown" <=>
                    \/ LeadingPeakTag \notin PeakTags
                    \/ Size(main.peaksArraySegment) < NbrPeakMarkerElements
               /\ main'.pc = "thrown" =>
                    main'.peaksArraySegment = main.peaksArraySegment
               /\ main'.pc \in {"PrintMarkers", "thrown"}]_vars
    /\ [](main.pc = "returned" =>
            /\ Size(main.first) % NbrPeakMarkerElements = 0
            /\ Size(main.peaksArraySegment) = 0)
    /\ [](Size(main.first) % NbrPeakMarkerElements # 0
            => <>(main.pc = "thrown"))
    /\ <>(main.pc \in {"returned", "thrown"})

\* Two markers were consumed and the call failed on the 3 elements left,
\* which begin with an alignment tag.
C37_Witness ==
    /\ main.pc = "thrown"
    /\ main.turns = 3
    /\ Size(main.first) = 2 * NbrPeakMarkerElements + 3
    /\ Size(main.peaksArraySegment) = 3
    /\ LeadingPeakTag = PeakAlignment

\* ---------------------------------------------------------------------------
\* ExpandSign, in its int32_t and its int64_t overload. The values of both
\* are held in three limbs, [a, b, c] = a * 2^60 + b * 2^30 + c with
\* 0 <= b, c < 2^30, so that the arithmetic of either width is exact.
Pow2_30 == Pow2_24 * 64

Wide(a, b, c) ==
    LET cc == c % Pow2_30
        b2 == b + (c \div Pow2_30)
    IN  [a |-> a + (b2 \div Pow2_30), b |-> b2 % Pow2_30, c |-> cc]

\* 2^k, 0 <= k <= 64
WidePow2(k) ==
    IF k < 30 THEN Wide(0, 0, 2 ^ k)
    ELSE IF k < 60 THEN Wide(0, 2 ^ (k - 30), 0)
    ELSE Wide(2 ^ (k - 60), 0, 0)

WideSub(x, y) == Wide(x.a - y.a, x.b - y.b, x.c - y.c)

WideLess(x, y) ==
    \/ x.a < y.a
    \/ x.a = y.a /\ x.b < y.b
    \/ x.a = y.a /\ x.b = y.b /\ x.c < y.c

WideZero == Wide(0, 0, 0)

\* x mod 2^k, in [0, 2^k)
WideMod(x, k) ==
    IF k < 30 THEN Wide(0, 0, x.c % (2 ^ k))
    ELSE IF k < 60 THEN Wide(0, x.b % (2 ^ (k - 30)), x.c)
    ELSE Wide(x.a % (2 ^ (k - 60)), x.b, x.c)

\* x is a value of the signed type of w bits
Representable(x, w) ==
    /\ ~WideLess(x, WideSub(WideZero, WidePow2(w - 1)))
    /\ WideLess(x, WidePow2(w - 1))

\* The w-bit two's-complement pattern of x read as a signed value
Wrapped(x, w) ==
    LET low == WideMod(x, w)
    IN  IF WideLess(low, WidePow2(w - 1)) THEN low
        ELSE WideSub(low, WidePow2(w))

\* ExpandSign(value, nbrBits) on the signed type of w bits (w = 32 for the
\* int32_t overload, w = 64 for the int64_t one). 1 << nbrBits is held in
\* that type: for nbrBits = w - 1 it is the minimum of the type and the
\* subtraction value - (1 << nbrBits) overflows the type, which is undefined
\* behaviour: the build wraps or traps (overflow).
ExpandSign(value, nbrBits, w, overflow) ==
    LET shifted == Wrapped(WidePow2(nbrBits), w)
        difference == WideSub(value, shifted)
    IN  IF nbrBits <= 0 \/ w <= nbrBits
        THEN [err |-> "invalid_argument", val |-> WideZero]
        ELSE IF ~WideLess(value, WidePow2(nbrBits - 1))
        THEN IF Representable(difference, w)
             THEN [err |-> "", val |-> difference]
             ELSE IF overflow = "wraps"
             THEN [err |-> "", val |-> Wrapped(difference, w)]
             ELSE [err |-> "signed_overflow", val |-> WideZero]
        ELSE [err |-> "", val |-> value]

Overloads == {32, 64}

\* The values ExpandSign is called with for a width: the ends and the
\* middle of [0, 2^nbrBits) for a width of 1 to w - 1 bits, 0 and 1 for
\* the others.
SignValues(nbrBits, w) ==
    IF nbrBits <= 0 \/ w <= nbrBits
    THEN {WideZero, Wide(0, 0, 1)}
    ELSE {WideZero,
          WideSub(WidePow2(nbrBits - 1), Wide(0, 0, 1)),
          WidePow2(nbrBits - 1),
          WideSub(WidePow2(nbrBits), Wide(0, 0, 2)),
          WideSub(WidePow2(nbrBits), Wide(0, 0, 1))}

ExpandSignCalls ==
    {[fn |-> "ExpandSign", w |-> w, value |-> v, nbrBits |-> n,
      done |-> FALSE, out |-> NoCall] :
        <<w, n, v>> \in
          UNION {UNION {{<<w, n, v>> : v \in SignValues(n, w)} :
                           n \in (-1)..(w + 1)} : w \in Overloads}}

InitSign ==
    /\ DecoderInit /\ m_mode = "Normal"
    /\ pure \in ExpandSignCalls
    /\ batch = NoBatch
    /\ fe = NoFetch
    /\ main = NoMain

ApplyExpandSign ==
    /\ pure.fn = "ExpandSign" /\ ~pure.done
    /\ \E overflow \in {"wraps", "traps"} :
         pure' = [pure EXCEPT
                    !.done = TRUE,
                    !.out = ExpandSign(pure.value, pure.nbrBits, pure.w,
                                       overflow)]
    /\ UNCHANGED << decoderVars, batch, fe, main >>

NextSign == ApplyExpandSign

SpecSign == InitSign /\ [][NextSign]_vars

\* C38: for every width n accepted by ExpandSign (1 <= n < 32 for the 32-bit
\* overload, 1 <= n < 64 for the 64-bit one) and every value in [0, 2^n),
\* ExpandSign(value, n) is value when value < 2^(n-1) and value - 2^n
\* otherwise, so it lies in [-2^(n-1), 2^(n-1)) and is congruent to value
\* modulo 2^n; any other width is rejected with invalid_argument.
C38_ExpandSignTwosComplement ==
    (pure.fn = "ExpandSign" /\ pure.done) =>
        IF 1 <= pure.nbrBits /\ pure.nbrBits < pure.w
        THEN /\ pure.out.err = ""
             /\ pure.out.val =
                  IF WideLess(pure.value, WidePow2(pure.nbrBits - 1))
                  THEN pure.value
                  ELSE WideSub(pure.value, WidePow2(pure.nbrBits))
             /\ Representable(pure.out.val, pure.nbrBits)
             /\ WideMod(pure.out.val, pure.nbrBits)
                  = WideMod(pure.value, pure.nbrBits)
        ELSE pure.out.err = "invalid_argument"

\* ExpandSign(0x40000000, 31) on the int32_t overload: the subtraction
\* 0x40000000 - INT_MIN overflowed.
C38_SignedOverflow ==
    /\ pure.fn = "ExpandSign" /\ pure.done
    /\ pure.w = 32 /\ pure.nbrBits = 31
    /\ pure.value = WidePow2(30)
    /\ pure.out.err = "signed_overflow"

====
